---- MODULE Spec2Model ----
(***************************************************************************)
(* Model of the eshell backend (src/src-tauri/src): the session registry   *)
(* and PTY worker (state.rs, ssh_service.rs) and the ops-agent store and   *)
(* orchestrator (ops_agent/store.rs, ops_agent/service.rs).                *)
(*                                                                         *)
(* A Rust String is a sequence of UTF-8 bytes.  A byte is written as a     *)
(* one-character string for ASCII, and "C3","A9" are the two bytes of the  *)
(* two-byte character U+00E9; "A9" is its continuation byte.  A token such *)
(* as "<rejected>" stands for one fixed text of the source as one unit.    *)
(***************************************************************************)
EXTENDS Integers, Sequences, FiniteSets, TLC

VARIABLES
    sessions,       \* state.rs:27   id -> [current_dir, last_output]
    pty_channels,   \* state.rs:29   ids that have a registered Sender<PtyCommand>
    inbox,          \* ssh_service.rs:446  the mpsc queue behind each Sender
    status_cache,   \* state.rs:28   ids that have a cached ServerStatus
    worker,         \* ssh_service.rs:456  per session: the worker thread's position
    chanEof,        \* the remote side of a worker's channel has ended
    open,           \* the open_shell_session call in progress
    exec,           \* the execute_command calls in progress
    fetch,          \* the fetch_server_status call in progress
    nextSid,        \* next fresh session id (Uuid::new_v4)
    calls,          \* number of API calls made so far
    lastCall,       \* the last API call that returned, with its result
    closed,         \* session ids for which close_shell_session has returned
    appended,       \* per session, every chunk the worker appended, concatenated
    chain           \* per session, the remote directory its sequential cd calls lead to

sessVars == <<sessions, pty_channels, inbox, status_cache, worker, chanEof, open, exec,
              fetch, nextSid, calls, lastCall, closed, appended, chain>>

VARIABLES
    conversations,           \* store.rs  OpsAgentData.conversations (a Vec, in order)
    pending_actions,         \* store.rs  OpsAgentData.pending_actions (a Vec, in order)
    active_conversation_id,  \* store.rs  OpsAgentData.active_conversation_id (an Option)
    nextUuid,                \* next fresh conversation or action id (Uuid::new_v4)
    clock,                   \* the time now_rfc3339 last returned
    untitled,                \* ids of the conversations created without a title
    disk,                    \* store.rs  the list file and the conversation files, as JSON
    runs,                    \* service.rs  the chat runs in progress
    resolvers,               \* service.rs  the resolve_pending_action calls in progress
    events,                  \* the "ops-agent-stream" events emitted, in order
    invoked,                 \* the invocations of ssh_service::execute_command, in order
    agentCalls,              \* number of agent API calls made so far
    resolveCalls,            \* the [action_id, approve] inputs resolveAction was called with
    settled,                 \* ids of the actions a resolveAction call has returned terminal
    lastResolve,             \* the last resolveAction call that returned, with its result
    lastDelete               \* the last deleteConversation call that returned, with its result

storeVars == <<conversations, pending_actions, active_conversation_id, nextUuid, clock, untitled,
               disk>>

agentVars == <<runs, resolvers, events, invoked, agentCalls, resolveCalls, settled, lastResolve,
               lastDelete>>

VARIABLES
    callers                  \* per calling thread: the operation it runs, the locks it holds
                             \* and the network call it waits for

lockVars == <<callers>>

VARIABLES
    root                     \* store.rs  the store's directory beside the split layout:
                             \* whether a store runs on it, its legacy file, and whether
                             \* the list file exists

startVars == <<root>>

VARIABLES
    pty_output,              \* ssh_service.rs:524  the "pty-output" events emitted, in order
    queued,                  \* ssh_service.rs:624  per session, the commands sent to its
                             \* worker's inbox, in order
    applied,                 \* ssh_service.rs:470  per session, the commands its worker has
                             \* applied to the channel, in order
    sending                  \* state.rs:117  the send_pty_command call that holds a cloned
                             \* sender and has not sent yet

\* the traffic of the event sink and of the workers' inboxes (recorded by the
\* specifications of the sink and of the inbox only)
sinkVars == <<pty_output, queued, applied, sending>>

\* what the session operations leave alone
otherVars == <<storeVars, agentVars, lockVars, startVars, sinkVars>>

\* what the agent operations leave alone
aroundVars == <<sessVars, lockVars, startVars, sinkVars>>

vars == <<sessVars, storeVars, agentVars, lockVars, startVars, sinkVars>>

----------------------------------------------------------------------------
(* Strings *)

NoneVal == "None"

\* an Option is a sequence: None is <<>> and Some(x) is <<x>>
None == <<>>

Some(x) == <<x>>

IsContinuation(b) == b = "A9"

IsWhitespace(b) == b \in {" ", "\n", "\r", "\t"}

\* str::chars().count()
CharCount(s) == Cardinality({i \in 1..Len(s) : ~IsContinuation(s[i])})

\* str::char_indices().nth(n): the byte offset (from 0) of the n-th character
\* (from 0), or -1 (None) when the string has n characters or fewer.
CharOffset(s, n) ==
    LET starts == {i \in 1..Len(s) : ~IsContinuation(s[i])}
        hit == {i \in starts : Cardinality({j \in starts : j < i}) = n}
    IN IF hit = {} THEN -1 ELSE (CHOOSE i \in hit : TRUE) - 1

\* String::drain(..n): drops the first n bytes.
DrainBytes(s, n) == SubSeq(s, n + 1, Len(s))

\* chars().take(k).collect()
TakeChars(s, k) ==
    LET off == CharOffset(s, k)
    IN IF off = -1 THEN s ELSE SubSeq(s, 1, off)

RECURSIVE TrimStart(_)
TrimStart(s) ==
    IF s = <<>> THEN s
    ELSE IF IsWhitespace(Head(s)) THEN TrimStart(Tail(s)) ELSE s

RECURSIVE TrimEnd(_)
TrimEnd(s) ==
    IF s = <<>> THEN s
    ELSE IF IsWhitespace(s[Len(s)]) THEN TrimEnd(SubSeq(s, 1, Len(s) - 1)) ELSE s

\* str::trim()
Trim(s) == TrimEnd(TrimStart(s))

\* str::replace(from, to) for one-byte patterns
ReplaceByte(s, from, to) == [i \in 1..Len(s) |-> IF s[i] = from THEN to ELSE s[i]]

StartsWith(s, p) == Len(s) >= Len(p) /\ SubSeq(s, 1, Len(p)) = p

\* str::trim_end_matches(b)
RECURSIVE TrimEndMatches(_, _)
TrimEndMatches(s, b) ==
    IF s # <<>> /\ s[Len(s)] = b THEN TrimEndMatches(SubSeq(s, 1, Len(s) - 1), b) ELSE s

----------------------------------------------------------------------------
(* ssh_service.rs: output buffer *)

\* The cap on last_output.  The source sets 16000 (ssh_service.rs:30); the
\* model scales it down so that the cap is crossed by a few short chunks.
MAX_SESSION_LAST_OUTPUT_CHARS == 3

trim_to_last_chars_bytes(value, max_chars) ==
    IF max_chars = 0 THEN <<>>
    ELSE IF Len(value) <= max_chars THEN value
    ELSE DrainBytes(value, Len(value) - max_chars)

trim_to_last_chars(value, max_chars) ==
    IF max_chars = 0 THEN <<>>
    ELSE LET total_chars == CharCount(value)
         IN IF total_chars <= max_chars THEN value
            ELSE LET drop_chars == total_chars - max_chars
                     off == CharOffset(value, drop_chars)
                     drop_bytes == IF off = -1 THEN 0 ELSE off
                 IN DrainBytes(value, drop_bytes)

format_stdout_stderr(stdout, stderr) ==
    LET so == Trim(stdout) = <<>>
        se == Trim(stderr) = <<>>
    IN IF ~so /\ ~se THEN stdout \o <<"\n">> \o stderr
       ELSE IF ~so THEN stdout
       ELSE IF ~se THEN stderr
       ELSE <<>>

----------------------------------------------------------------------------
(* ssh_service.rs: working directory *)

RECURSIVE ReplaceDoubleSlash(_)
ReplaceDoubleSlash(s) ==
    IF Len(s) < 2 THEN s
    ELSE IF s[1] = "/" /\ s[2] = "/" THEN <<"/">> \o ReplaceDoubleSlash(SubSeq(s, 3, Len(s)))
    ELSE <<s[1]>> \o ReplaceDoubleSlash(Tail(s))

ContainsDoubleSlash(s) == \E i \in 1..(Len(s) - 1) : s[i] = "/" /\ s[i + 1] = "/"

RECURSIVE CollapseSlashes(_)
CollapseSlashes(s) ==
    IF ContainsDoubleSlash(s) THEN CollapseSlashes(ReplaceDoubleSlash(s)) ELSE s

normalize_remote_path(value) ==
    LET n0 == ReplaceByte(Trim(value), "\\", "/")
    IN IF n0 = <<>> THEN <<"/">>
       ELSE LET n1 == CollapseSlashes(n0)
                n2 == IF StartsWith(n1, <<"/">>) THEN n1 ELSE <<"/">> \o n1
                n3 == IF Len(n2) > 1 THEN TrimEndMatches(n2, "/") ELSE n2
            IN IF n3 = <<>> THEN <<"/">> ELSE n3

sanitize_cwd(value) ==
    IF Trim(value) = <<>> THEN <<"/">> ELSE normalize_remote_path(Trim(value))

\* Option<Option<String>>: cd = FALSE is None; cd = TRUE with some = FALSE is Some(None).
parse_cd_target(command) ==
    LET trimmed == Trim(command)
    IN IF trimmed = <<"c", "d">> THEN [cd |-> TRUE, some |-> FALSE, target |-> <<>>]
       ELSE IF StartsWith(trimmed, <<"c", "d", " ">>)
            THEN [cd |-> TRUE, some |-> TRUE,
                  target |-> Trim(SubSeq(trimmed, 4, Len(trimmed)))]
            ELSE [cd |-> FALSE, some |-> FALSE, target |-> <<>>]

\* str::replace for the one byte "'" and a longer replacement
RECURSIVE ReplaceQuote(_)
ReplaceQuote(s) ==
    IF s = <<>> THEN <<>>
    ELSE IF Head(s) = "'" THEN <<"'", "\"", "'", "\"", "'">> \o ReplaceQuote(Tail(s))
    ELSE <<Head(s)>> \o ReplaceQuote(Tail(s))

shell_quote(value) == <<"'">> \o ReplaceQuote(value) \o <<"'">>

----------------------------------------------------------------------------
(* The remote host, as run_channel_command sees it: a fixed directory tree. *)
(* A directory is the sequence of its one-byte component names; one         *)
(* directory is named by a backslash, which is legal on the remote host.    *)

RemoteDirs == {<<>>, <<"a">>, <<"a", "a">>, <<"\\">>}

RemoteHome == <<"a">>

RECURSIVE PathBytes(_)
PathBytes(d) == IF d = <<>> THEN <<>> ELSE <<"/", Head(d)>> \o PathBytes(Tail(d))

\* what pwd prints for directory d
PwdString(d) == IF d = <<>> THEN <<"/">> ELSE PathBytes(d)

ParsePath(s) == SelectSeq(s, LAMBDA b : b # "/")

\* the word a POSIX shell reads from an argument: quotes and escapes removed
RECURSIVE ShellWord(_, _)
ShellWord(s, mode) ==
    IF s = <<>> THEN <<>>
    ELSE LET b == Head(s)
         IN IF mode = "none"
            THEN IF b = "'" THEN ShellWord(Tail(s), "single")
                 ELSE IF b = "\"" THEN ShellWord(Tail(s), "double")
                 ELSE IF b = "\\" /\ Len(s) > 1
                 THEN <<s[2]>> \o ShellWord(Tail(Tail(s)), "none")
                 ELSE <<b>> \o ShellWord(Tail(s), "none")
            ELSE IF mode = "single"
            THEN IF b = "'" THEN ShellWord(Tail(s), "none")
                 ELSE <<b>> \o ShellWord(Tail(s), "single")
            ELSE IF b = "\"" THEN ShellWord(Tail(s), "none")
                 ELSE <<b>> \o ShellWord(Tail(s), "double")

\* the directory the word `target` names for a shell standing in d (it may not exist)
RemoteResolve(d, target) ==
    IF target = <<"~">> THEN RemoteHome
    ELSE IF target = <<".", ".">> THEN (IF d = <<>> THEN <<>> ELSE SubSeq(d, 1, Len(d) - 1))
    ELSE IF StartsWith(target, <<"/">>) THEN ParsePath(target)
    ELSE d \o ParsePath(target)

\* a shell as a command starts it: in the login directory, OLDPWD unset
LoginShell == [dir |-> RemoteHome, oldpwd |-> None]

\* `cd target` in shell sh: `cd -` goes to OLDPWD and prints it, and fails when
\* OLDPWD is unset; any other cd goes where the target leads, when that exists
RemoteCd(sh, target) ==
    LET failed == [ok |-> FALSE, sh |-> sh, printed |-> <<>>]
        d1 == RemoteResolve(sh.dir, target)
    IN IF target = <<"-">>
       THEN (IF sh.oldpwd = None THEN failed
             ELSE [ok |-> TRUE, sh |-> [dir |-> sh.oldpwd[1], oldpwd |-> Some(sh.dir)],
                   printed |-> PwdString(sh.oldpwd[1]) \o <<"\n">>])
       ELSE IF d1 \in RemoteDirs
       THEN [ok |-> TRUE, sh |-> [dir |-> d1, oldpwd |-> Some(sh.dir)], printed |-> <<>>]
       ELSE failed

\* `cd <quoted> && cd <target> && pwd` in a fresh shell on the remote host
RemoteCdPwd(quoted, cd_target) ==
    LET first == RemoteCd(LoginShell, ShellWord(quoted, "none"))
        second == RemoteCd(first.sh, ShellWord(cd_target, "none"))
    IN IF first.ok /\ second.ok
       THEN [exit |-> 0, stderr |-> <<>>,
             stdout |-> second.printed \o PwdString(second.sh.dir) \o <<"\n">>]
       ELSE [exit |-> 1, stdout |-> <<>>, stderr |-> <<"<no such directory>", "\n">>]

\* a printed path that the sanitizer would rewrite
HasBackslash(path) == \E i \in 1..Len(path) : path[i] = "\\"

----------------------------------------------------------------------------
(* Bounds and inputs *)

\* session ids: a client may name any of them; open creates those in OpenIds
SessionIds == {1, 2}

OpenIds == {1}

ExecIds == {1, 2}

\* API calls made in one behaviour
MaxCalls == 3

\* bytes the worker appends to one session while they are recorded in `appended`
MaxAppended == 7

\* chat runs and resolveAction calls that may be in progress together
RunIds == {1}

ResolverIds == {1, 2}

\* agent API calls made in one behaviour
MaxAgentCalls == 4

\* readings of the clock that differ
MaxClock == 2

\* what the worker reads from its channel (String::from_utf8_lossy of the bytes read)
Chunks == {<<"a">>, <<"C3", "A9">>, <<"b", "C3", "A9">>, <<"C3", "A9", "a", "b">>}

CdCommands == {<<"c", "d">>, <<"c", "d", " ", "/">>, <<"c", "d", " ", ".", ".">>,
               <<"c", "d", " ", "/", "\\", "\\">>, <<"c", "d", " ", "x">>,
               <<"c", "d", " ", "-">>}

PlainCommand == <<"l", "s">>

BlankCommand == <<" ">>

\* stdout of a plain command, one character longer than the cap
BigOutput == [i \in 1..(MAX_SESSION_LAST_OUTPUT_CHARS + 1) |-> "o"]

\* (stdout, stderr, exit code) a plain command may produce
PlainResults == {[stdout |-> <<"o", "\n">>, stderr |-> <<>>, exit |-> 0],
                 [stdout |-> <<>>, stderr |-> <<"e", "\n">>, exit |-> 1],
                 [stdout |-> BigOutput, stderr |-> <<>>, exit |-> 0]}

EmptyMap == [x \in {} |-> NoneVal]

MapRemove(m, k) == [x \in DOMAIN m \ {k} |-> m[x]]

IdleExec == [pc |-> "idle", sid |-> 0, command |-> <<>>, dir |-> <<>>,
             stdout |-> <<>>, stderr |-> <<>>, exit |-> 0]

IdleFetch == [pc |-> "idle", sid |-> 0]

IdleOpen == [pc |-> "idle", sid |-> 0]

NoCall == [n |-> 0, op |-> "none", sid |-> 0, res |-> "none", late |-> FALSE,
           settled |-> FALSE, data |-> <<>>, exit |-> 0, current_dir |-> <<>>]

\* The record of call number calls + 1 returning in the step that began it:
\* late when a close of the id had returned before, settled when the last such
\* close came while no open of the id was in progress.
Returned(op, sid, res, data, exit, dir) ==
    [n |-> calls + 1, op |-> op, sid |-> sid, res |-> res, late |-> sid \in closed.any,
     settled |-> sid \in closed.settled, data |-> data, exit |-> exit, current_dir |-> dir]

\* the same for a call that began in an earlier step, on a registered session
ReturnedLater(op, sid, res, data, exit, dir) ==
    [n |-> calls + 1, op |-> op, sid |-> sid, res |-> res, late |-> FALSE,
     settled |-> FALSE, data |-> data, exit |-> exit, current_dir |-> dir]

----------------------------------------------------------------------------
(* state.rs: the session registry *)

\* ShellSession, without its config and timestamp fields
NewSession(cwd) == [current_dir |-> cwd, last_output |-> <<>>]

put_session(sid, session) == (sid :> session) @@ sessions

\* a mutate_session that applied the closure's result to every session
mutate_session_every(sid, mutated) == [s \in DOMAIN sessions |-> mutated]

\* a mutate_session that drops what the closure made
mutate_session_dropped(sid, mutated) == sessions

\* mutate_session on a present id: the closure is applied once, under the write
\* lock; `mutated` is what the closure makes of sessions[sid]
mutate_session(sid, mutated) == [sessions EXCEPT ![sid] = mutated]

\* Ok(session.clone()) of mutate_session: the entry as the closure left it
mutate_session_returns(sid, mutated) == mutated

\* the worker's receiver is alive until run_pty_worker returns
ReceiverAlive(sid) == worker[sid].pc # "done" /\ worker[sid].pc # "none"

\* Sender::send: the command is queued unless the receiver is gone
Send(q, sid, command) == IF ReceiverAlive(sid) THEN [q EXCEPT ![sid] = Append(@, command)] ELSE q

\* remove_pty_channel
remove_pty_channel(sid) ==
    /\ pty_channels' = pty_channels \ {sid}
    /\ inbox' = IF sid \in pty_channels THEN Send(inbox, sid, "Close") ELSE inbox

\* remove_session: the inbox goes first, the cache only when the session was present
remove_session(sid) ==
    /\ remove_pty_channel(sid)
    /\ IF sid \in DOMAIN sessions
       THEN /\ sessions' = MapRemove(sessions, sid)
            /\ status_cache' = status_cache \ {sid}
       ELSE UNCHANGED <<sessions, status_cache>>

remove_session_result(sid) == IF sid \in DOMAIN sessions THEN "Ok" ELSE "NotFound"

\* a send_pty_command that reports a missing sender as a send failure
send_pty_command_result_runtime(sid) ==
    IF ReceiverAlive(sid) /\ sid \in pty_channels THEN "Ok" ELSE "Runtime"

\* send_pty_command: result and queue
send_pty_command_result(sid) ==
    IF sid \notin pty_channels THEN "NotFound"
    ELSE IF ReceiverAlive(sid) THEN "Ok" ELSE "Runtime"

send_pty_command(sid, command) ==
    inbox' = IF sid \in pty_channels THEN Send(inbox, sid, command) ELSE inbox

----------------------------------------------------------------------------
(* ssh_service.rs: open, close, input, resize *)

\* open_shell_session up to put_session: config lookup, connect and pwd may fail
OpenStart ==
    /\ open.pc = "idle"
    /\ nextSid \in OpenIds
    /\ calls < MaxCalls
    /\ \/ /\ lastCall' = Returned("open", 0, "Runtime", <<>>, 0, <<>>)
          /\ calls' = calls + 1
          /\ UNCHANGED <<sessions, open, nextSid>>
       \/ /\ sessions' = put_session(nextSid,
                NewSession(sanitize_cwd(Trim(PwdString(RemoteHome) \o <<"\n">>))))
          /\ open' = [pc |-> "worker", sid |-> nextSid]
          /\ nextSid' = nextSid + 1
          /\ UNCHANGED <<calls, lastCall>>
    /\ UNCHANGED <<pty_channels, inbox, status_cache, worker, chanEof, exec, fetch,
                   closed, appended, chain>>

\* start_pty_worker: the channel requests may fail; else the inbox is registered
\* and the worker thread starts
OpenWorker ==
    /\ open.pc = "worker"
    /\ \/ /\ lastCall' = ReturnedLater("open", open.sid, "Ssh", <<>>, 0, <<>>)
          /\ UNCHANGED <<pty_channels, worker>>
       \/ /\ pty_channels' = pty_channels \cup {open.sid}
          /\ worker' = [worker EXCEPT ![open.sid] = [pc |-> "drain", keep_running |-> TRUE]]
          /\ lastCall' = ReturnedLater("open", open.sid, "Ok", <<>>, 0, <<>>)
    /\ open' = IdleOpen
    /\ calls' = calls + 1
    /\ UNCHANGED <<sessions, inbox, status_cache, chanEof, exec, fetch, nextSid,
                   closed, appended, chain>>

\* close_shell_session: NotFound from remove_session is mapped to Ok
close_shell_session(sid) ==
    /\ calls < MaxCalls
    /\ remove_session(sid)
    /\ lastCall' = Returned("close", sid, "Ok", <<>>, 0, <<>>)
    /\ calls' = calls + 1
    /\ closed' = [any |-> closed.any \cup {sid},
                   settled |-> IF open.pc = "worker" /\ open.sid = sid
                               THEN closed.settled \ {sid}
                               ELSE closed.settled \cup {sid}]
    /\ UNCHANGED <<worker, chanEof, open, exec, fetch, nextSid, appended, chain>>

\* pty_write_input: empty data returns Ok before the inbox is looked up
pty_write_input(sid, data) ==
    /\ calls < MaxCalls
    /\ IF data = <<>>
       THEN /\ lastCall' = Returned("write", sid, "Ok", data, 0, <<>>)
            /\ UNCHANGED inbox
       ELSE /\ send_pty_command(sid, "Input")
            /\ lastCall' = Returned("write", sid, send_pty_command_result(sid), data, 0, <<>>)
    /\ calls' = calls + 1
    /\ UNCHANGED <<sessions, pty_channels, status_cache, worker, chanEof, open, exec,
                   fetch, nextSid, closed, appended, chain>>

pty_resize(sid) ==
    /\ calls < MaxCalls
    /\ send_pty_command(sid, "Resize")
    /\ lastCall' = Returned("resize", sid, send_pty_command_result(sid), <<>>, 0, <<>>)
    /\ calls' = calls + 1
    /\ UNCHANGED <<sessions, pty_channels, status_cache, worker, chanEof, open, exec,
                   fetch, nextSid, closed, appended, chain>>

----------------------------------------------------------------------------
(* ssh_service.rs: the PTY worker *)

\* a try_recv loop that takes an Input from the inbox without writing it
WorkerDrainDropsInput(sid) ==
    /\ worker[sid].pc = "drain"
    /\ IF inbox[sid] = <<>>
       THEN /\ worker' = [worker EXCEPT ![sid] =
                    [pc |-> "read", keep_running |-> sid \in pty_channels]]
            /\ UNCHANGED inbox
       ELSE /\ inbox' = [inbox EXCEPT ![sid] = Tail(@)]
            /\ worker' = [worker EXCEPT ![sid] =
                    IF Head(inbox[sid]) = "Close" THEN [pc |-> "read", keep_running |-> FALSE]
                    ELSE @]
    /\ UNCHANGED <<sessions, pty_channels, status_cache, chanEof, open, exec, fetch,
                   nextSid, calls, lastCall, closed, appended, chain>>

\* one try_recv of the inner loop of run_pty_worker
WorkerDrain(sid) ==
    /\ worker[sid].pc = "drain"
    /\ IF inbox[sid] = <<>>
       THEN \* Empty, or Disconnected once the sender is gone
            /\ worker' = [worker EXCEPT ![sid] =
                    [pc |-> "read", keep_running |-> sid \in pty_channels]]
            /\ UNCHANGED inbox
       ELSE /\ inbox' = [inbox EXCEPT ![sid] = Tail(@)]
            /\ worker' = [worker EXCEPT ![sid] =
                    IF Head(inbox[sid]) = "Close" THEN [pc |-> "read", keep_running |-> FALSE]
                    ELSE IF Head(inbox[sid]) = "Input" THEN [@ EXCEPT !.pc = "write"]
                    ELSE @]
    /\ UNCHANGED <<sessions, pty_channels, status_cache, chanEof, open, exec, fetch,
                   nextSid, calls, lastCall, closed, appended, chain>>

\* one channel.write of write_channel_input for the Input taken from the inbox;
\* the inbox is not looked at before the write has gone through or failed
WorkerWrite(sid) ==
    /\ worker[sid].pc = "write"
    /\ IF chanEof[sid]
       THEN \* Ok(0) with channel.eof(), or Err(_): the write fails and the loop ends
            worker' = [worker EXCEPT ![sid] = [pc |-> "read", keep_running |-> FALSE]]
       ELSE \/ \* Ok(size) up to the last byte, then flush: back to try_recv
               worker' = [worker EXCEPT ![sid].pc = "drain"]
            \/ \* Ok(0) or WouldBlock: the channel takes nothing now
               worker' = [worker EXCEPT ![sid].pc = "backoff"]
            \/ \* Err(_)
               worker' = [worker EXCEPT ![sid] = [pc |-> "read", keep_running |-> FALSE]]
    /\ UNCHANGED <<sessions, pty_channels, inbox, status_cache, chanEof, open, exec,
                   fetch, nextSid, calls, lastCall, closed, appended, chain>>

\* thread::sleep of 4 ms in write_channel_input, then the write is tried again
WorkerBackoff(sid) ==
    /\ worker[sid].pc = "backoff"
    /\ worker' = [worker EXCEPT ![sid].pc = "write"]
    /\ UNCHANGED <<sessions, pty_channels, inbox, status_cache, chanEof, open, exec,
                   fetch, nextSid, calls, lastCall, closed, appended, chain>>

\* the closure of append_session_output
append_session_output(session, chunk) ==
    [session EXCEPT !.last_output =
        trim_to_last_chars(@ \o chunk, MAX_SESSION_LAST_OUTPUT_CHARS)]

\* channel.read of a chunk: appended to the session when it is still registered
WorkerReadChunk(sid, chunk) ==
    /\ worker[sid].pc = "read"
    /\ ~chanEof[sid]
    /\ sessions' = IF sid \in DOMAIN sessions
                   THEN mutate_session(sid, append_session_output(sessions[sid], chunk))
                   ELSE sessions
    /\ worker' = [worker EXCEPT ![sid].pc =
            IF worker[sid].keep_running THEN "drain" ELSE "exit"]
    /\ UNCHANGED <<pty_channels, inbox, status_cache, chanEof, open, exec, fetch,
                   nextSid, calls, lastCall, closed, chain>>

\* channel.read without data: would-block, end of stream, or an error
WorkerReadNone(sid) ==
    /\ worker[sid].pc = "read"
    /\ \/ \* WouldBlock, or Ok(0): the loop goes on unless the channel is at eof
          worker' = [worker EXCEPT ![sid] =
                [pc |-> IF @.keep_running /\ ~chanEof[sid] THEN "drain" ELSE "exit",
                 keep_running |-> @.keep_running /\ ~chanEof[sid]]]
       \/ \* Err(_)
          worker' = [worker EXCEPT ![sid] = [pc |-> "exit", keep_running |-> FALSE]]
    /\ UNCHANGED <<sessions, pty_channels, inbox, status_cache, chanEof, open, exec,
                   fetch, nextSid, calls, lastCall, closed, appended, chain>>

\* a worker that returns after channel.close and wait_close, leaving the registry alone
WorkerReturn(sid) ==
    /\ worker[sid].pc = "exit"
    /\ worker' = [worker EXCEPT ![sid].pc = "done"]
    /\ UNCHANGED <<sessions, pty_channels, inbox, status_cache, chanEof, open, exec,
                   fetch, nextSid, calls, lastCall, closed, appended, chain>>

\* after the loop: channel.close, wait_close, remove_session
WorkerExit(sid) ==
    /\ worker[sid].pc = "exit"
    /\ remove_session(sid)
    /\ worker' = [worker EXCEPT ![sid].pc = "done"]
    /\ UNCHANGED <<chanEof, open, exec, fetch, nextSid, calls, lastCall, closed,
                   appended, chain>>

\* the remote shell of a live worker ends
RemoteEof(sid) ==
    /\ ReceiverAlive(sid)
    /\ ~chanEof[sid]
    /\ chanEof' = [chanEof EXCEPT ![sid] = TRUE]
    /\ UNCHANGED <<sessions, pty_channels, inbox, status_cache, worker, open, exec,
                   fetch, nextSid, calls, lastCall, closed, appended, chain>>

----------------------------------------------------------------------------
(* ssh_service.rs: fetch_server_status *)

FetchStart(sid) ==
    /\ fetch.pc = "idle"
    /\ calls < MaxCalls
    /\ IF sid \in DOMAIN sessions
       THEN /\ fetch' = [pc |-> "run", sid |-> sid]
            /\ UNCHANGED <<calls, lastCall>>
       ELSE /\ lastCall' = Returned("fetch", sid, "NotFound", <<>>, 0, <<>>)
            /\ calls' = calls + 1
            /\ UNCHANGED fetch
    /\ UNCHANGED <<sessions, pty_channels, inbox, status_cache, worker, chanEof, open,
                   exec, nextSid, closed, appended, chain>>

\* the remote commands ran (or one failed); put_cached_status asks nothing of the registry
FetchFinish ==
    /\ fetch.pc = "run"
    /\ \/ /\ status_cache' = status_cache \cup {fetch.sid}
          /\ lastCall' = ReturnedLater("fetch", fetch.sid, "Ok", <<>>, 0, <<>>)
       \/ /\ lastCall' = ReturnedLater("fetch", fetch.sid, "Ssh", <<>>, 0, <<>>)
          /\ UNCHANGED status_cache
    /\ fetch' = IdleFetch
    /\ calls' = calls + 1
    /\ UNCHANGED <<sessions, pty_channels, inbox, worker, chanEof, open, exec, nextSid,
                   closed, appended, chain>>

----------------------------------------------------------------------------
(* ssh_service.rs: execute_command *)

IsCd(command) == parse_cd_target(Trim(command)).cd

CdTarget(command) ==
    LET parsed == parse_cd_target(Trim(command))
    IN IF parsed.some THEN parsed.target ELSE <<"~">>

\* get_session, find_ssh_config, connect, then the blank check
ExecStart(e, sid, command) ==
    /\ exec[e].pc = "idle"
    /\ calls < MaxCalls
    /\ IF sid \notin DOMAIN sessions
       THEN /\ lastCall' = Returned("execute", sid, "NotFound", command, 0, <<>>)
            /\ calls' = calls + 1
            /\ UNCHANGED exec
       ELSE \/ \* connect fails
               /\ lastCall' = Returned("execute", sid, "Ssh", command, 0, <<>>)
               /\ calls' = calls + 1
               /\ UNCHANGED exec
            \/ \* connected
               IF Trim(command) = <<>>
               THEN /\ lastCall' = Returned("execute", sid, "Validation", command, 0, <<>>)
                    /\ calls' = calls + 1
                    /\ UNCHANGED exec
               ELSE /\ exec' = [exec EXCEPT ![e] = [IdleExec EXCEPT !.pc = "run",
                            !.sid = sid, !.command = command,
                            !.dir = sessions[sid].current_dir]]
                    /\ UNCHANGED <<calls, lastCall>>
    /\ UNCHANGED <<sessions, pty_channels, inbox, status_cache, worker, chanEof, open,
                   fetch, nextSid, closed, appended, chain>>

\* run_channel_command of the cd chain: the remote host answers
ExecRunCd(e) ==
    /\ exec[e].pc = "run"
    /\ IsCd(exec[e].command)
    /\ LET r == RemoteCdPwd(shell_quote(exec[e].dir), CdTarget(exec[e].command))
       IN exec' = [exec EXCEPT ![e].pc = "wb", ![e].stdout = r.stdout,
                                ![e].stderr = r.stderr, ![e].exit = r.exit]
    /\ UNCHANGED <<sessions, pty_channels, inbox, status_cache, worker, chanEof, open,
                   fetch, nextSid, calls, lastCall, closed, appended>>

\* run_channel_command of `cd <dir> && <command>`
ExecRunPlain(e, r) ==
    /\ exec[e].pc = "run"
    /\ ~IsCd(exec[e].command)
    /\ exec' = [exec EXCEPT ![e].pc = "wb", ![e].stdout = r.stdout,
                             ![e].stderr = r.stderr, ![e].exit = r.exit]
    /\ UNCHANGED <<sessions, pty_channels, inbox, status_cache, worker, chanEof, open,
                   fetch, nextSid, calls, lastCall, closed, appended, chain>>

\* run_channel_command returns an error: the call ends with it
ExecRunFail(e) ==
    /\ exec[e].pc = "run"
    /\ lastCall' = ReturnedLater("execute", exec[e].sid, "Ssh", exec[e].command, 0, <<>>)
    /\ calls' = calls + 1
    /\ exec' = [exec EXCEPT ![e] = IdleExec]
    /\ UNCHANGED <<sessions, pty_channels, inbox, status_cache, worker, chanEof, open,
                   fetch, nextSid, closed, appended, chain>>

\* a cd branch that wrote back whatever the exit code
CdUpdatesAlways(exit_code) == TRUE

\* the cd branch updates the session only on exit code 0
CdUpdates(exit_code) == exit_code = 0

\* the closure of the cd branch
CdMutator(session, stdout) ==
    [session EXCEPT !.current_dir = sanitize_cwd(Trim(stdout)),
                    !.last_output = Trim(stdout)]

\* the closure of the plain branch
PlainMutator(session, stdout, stderr) ==
    [session EXCEPT !.last_output = format_stdout_stderr(stdout, stderr)]

\* the write back under the registry lock: mutate_session, NotFound when the
\* session has gone.  The plain branch returns here, with the directory read at the start.
ExecWriteBack(e) ==
    /\ exec[e].pc = "wb"
    /\ LET x == exec[e]
           sid == x.sid
       IN IF IsCd(x.command)
          THEN IF ~CdUpdates(x.exit)
               THEN /\ exec' = [exec EXCEPT ![e].pc = "rb"]
                    /\ UNCHANGED <<sessions, calls, lastCall>>
               ELSE IF sid \in DOMAIN sessions
               THEN /\ sessions' = mutate_session(sid, CdMutator(sessions[sid], x.stdout))
                    /\ exec' = [exec EXCEPT ![e].pc = "rb"]
                    /\ UNCHANGED <<calls, lastCall>>
               ELSE /\ lastCall' = ReturnedLater("execute", sid, "NotFound", x.command, 0, <<>>)
                    /\ calls' = calls + 1
                    /\ exec' = [exec EXCEPT ![e] = IdleExec]
                    /\ UNCHANGED sessions
          ELSE IF sid \in DOMAIN sessions
               THEN /\ sessions' = mutate_session(sid,
                                        PlainMutator(sessions[sid], x.stdout, x.stderr))
                    /\ lastCall' = ReturnedLater("execute", sid, "Ok", x.command, x.exit, x.dir)
                    /\ calls' = calls + 1
                    /\ exec' = [exec EXCEPT ![e] = IdleExec]
               ELSE /\ lastCall' = ReturnedLater("execute", sid, "NotFound", x.command, 0, <<>>)
                    /\ calls' = calls + 1
                    /\ exec' = [exec EXCEPT ![e] = IdleExec]
                    /\ UNCHANGED sessions
    /\ UNCHANGED <<pty_channels, inbox, status_cache, worker, chanEof, open, fetch,
                   nextSid, closed, appended, chain>>

\* current_dir of the cd branch's result: get_session after the update
ExecResultDir(e) == sessions[exec[e].sid].current_dir

\* the cd branch builds its result
ExecReadBack(e) ==
    /\ exec[e].pc = "rb"
    /\ LET x == exec[e]
       IN lastCall' = IF x.sid \in DOMAIN sessions
                      THEN ReturnedLater("execute", x.sid, "Ok", x.command, x.exit, ExecResultDir(e))
                      ELSE ReturnedLater("execute", x.sid, "NotFound", x.command, 0, <<>>)
    /\ calls' = calls + 1
    /\ exec' = [exec EXCEPT ![e] = IdleExec]
    /\ UNCHANGED <<sessions, pty_channels, inbox, status_cache, worker, chanEof, open,
                   fetch, nextSid, closed, appended, chain>>

----------------------------------------------------------------------------
(* The agent store and the agent's calls before anything has happened.     *)

\* OpsAgentPendingAction, without created_at and updated_at
NewAction(id, conversation_id, session_id, command, reason) ==
    [id |-> id, conversation_id |-> conversation_id, session_id |-> session_id,
     command |-> Trim(command), reason |-> Trim(reason), status |-> "Pending",
     resolved_at |-> None, execution_output |-> None, execution_exit_code |-> None]

\* PlanPayload, as serde reads the planner's JSON
NoPayload == [reply |-> None, tool |-> None]

\* PlannedAgentReply, as normalize_planned_reply returns it
NoPlan == [reply |-> <<>>, kind |-> "None", command |-> None, reason |-> None]

\* what ssh_service::execute_command returns to the agent
NoExecution == [ok |-> FALSE, stdout |-> <<>>, stderr |-> <<>>, exit_code |-> 0, error |-> <<>>]

NoAction == NewAction(0, 0, None, <<>>, <<>>)

IdleRun ==
    [pc |-> "idle", conversation_id |-> 0, session_id |-> None, question |-> <<>>,
     payload |-> NoPayload, plan |-> NoPlan, pending_action |-> None, answer |-> <<>>, execution |-> NoExecution,
     tool_failure |-> "none"]

IdleResolver ==
    [pc |-> "idle", action_id |-> 0, approve |-> FALSE, late |-> FALSE, action |-> NoAction,
     updated |-> NoAction, execution |-> NoExecution]

NoDelete == [n |-> 0, id |-> 0, res |-> "none"]

NoResolve == [n |-> 0, by |-> 0, action_id |-> 0, approve |-> FALSE, late |-> FALSE, res |-> "none"]

\* serde's name of every variant: camelCase for OpsAgentRole, snake_case for
\* OpsAgentToolKind and OpsAgentActionStatus
serde_rename ==
    [v \in {"System", "User", "Assistant", "Tool", "None", "ReadShell", "WriteShell",
            "Pending", "Rejected", "Executed", "Failed"} |->
        CASE v = "System" -> "system" [] v = "User" -> "user"
          [] v = "Assistant" -> "assistant" [] v = "Tool" -> "tool"
          [] v = "None" -> "none" [] v = "ReadShell" -> "read_shell"
          [] v = "WriteShell" -> "write_shell" [] v = "Pending" -> "pending"
          [] v = "Rejected" -> "rejected" [] v = "Executed" -> "executed"
          [] v = "Failed" -> "failed"]

\* the variant serde reads a name as
serde_variant(name) == CHOOSE v \in DOMAIN serde_rename : serde_rename[v] = name

\* an Option in JSON: null, or the value
JsonNull == [json |-> "null"]

option_to_json(o) == IF o = None THEN JsonNull ELSE [json |-> "value", v |-> o[1]]

option_from_json(j) == IF j.json = "null" THEN None ELSE Some(j.v)

\* OpsAgentConversation as serde writes it (camelCase keys), and as serde reads it
conversation_to_json(c) ==
    [id |-> c.id, title |-> c.title, sessionId |-> option_to_json(c.session_id),
     createdAt |-> c.created_at,
     messages |-> [i \in 1..Len(c.messages) |->
                     LET m == c.messages[i]
                     IN [role |-> serde_rename[m.role], content |-> m.content,
                         toolKind |-> IF m.tool_kind = None THEN JsonNull
                                      ELSE [json |-> "value",
                                            v |-> serde_rename[m.tool_kind[1]]]]]]

conversation_from_json(j) ==
    [id |-> j.id, title |-> j.title, session_id |-> option_from_json(j.sessionId),
     created_at |-> j.createdAt,
     messages |-> [i \in 1..Len(j.messages) |->
                     LET m == j.messages[i]
                     IN [role |-> serde_variant(m.role), content |-> m.content,
                         tool_kind |-> IF m.toolKind.json = "null" THEN None
                                       ELSE Some(serde_variant(m.toolKind.v))]]]

\* OpsAgentPendingAction as serde writes it, and as serde reads it
action_to_json(a) ==
    [id |-> a.id, conversationId |-> a.conversation_id,
     sessionId |-> option_to_json(a.session_id), command |-> a.command, reason |-> a.reason,
     status |-> serde_rename[a.status], resolvedAt |-> option_to_json(a.resolved_at),
     executionOutput |-> option_to_json(a.execution_output),
     executionExitCode |-> option_to_json(a.execution_exit_code)]

action_from_json(j) ==
    [id |-> j.id, conversation_id |-> j.conversationId,
     session_id |-> option_from_json(j.sessionId), command |-> j.command, reason |-> j.reason,
     status |-> serde_variant(j.status), resolved_at |-> option_from_json(j.resolvedAt),
     execution_output |-> option_from_json(j.executionOutput),
     execution_exit_code |-> option_from_json(j.executionExitCode)]

\* OpsAgentConversationSummary::from_conversation, as serde writes it, without
\* the preview of the last message
from_conversation(c) ==
    [id |-> c.id, title |-> c.title, sessionId |-> option_to_json(c.session_id),
     messageCount |-> Len(c.messages), createdAt |-> c.created_at]

\* OpsAgentData: the store's contents under its lock
OpsAgentData(convs, active, actions) ==
    [conversations |-> convs, active_conversation_id |-> active, pending_actions |-> actions]

\* a store that left the conversation files as they were
persist_conversation_skipped(files, conversation) == files

\* persist_conversation_locked: the conversation's file is written whole
persist_conversation_locked(files, conversation) ==
    [id \in DOMAIN files \cup {conversation.id} |->
        IF id = conversation.id THEN conversation_to_json(conversation) ELSE files[id]]

\* persist_list_locked: OpsAgentConversationListData::from_data, written whole
persist_list_locked(data) ==
    [conversations |-> [i \in 1..Len(data.conversations) |->
                            from_conversation(data.conversations[i])],
     activeConversationId |-> option_to_json(data.active_conversation_id),
     pendingActions |-> [i \in 1..Len(data.pending_actions) |->
                            action_to_json(data.pending_actions[i])]]

CallerIds == {1, 2}

IdleCaller == [op |-> "idle", path |-> <<>>, pc |-> 0, held |-> {}, call |-> "none"]

InitLocks == callers = [t \in CallerIds |-> IdleCaller]

\* a store runs on its directory: the list file is there and no legacy file is
Running == [running |-> TRUE, legacy |-> None, list_exists |-> TRUE]

InitStart == root = Running

\* no "pty-output" event has been emitted
IdleSend == [pc |-> "idle", sid |-> 0, command |-> "none"]

InitSink ==
    /\ pty_output = <<>>
    /\ queued = [sid \in SessionIds |-> <<>>]
    /\ applied = [sid \in SessionIds |-> <<>>]
    /\ sending = IdleSend

InitStore ==
    /\ conversations = <<>>
    /\ pending_actions = <<>>
    /\ active_conversation_id = None
    /\ nextUuid = 1
    /\ clock = 0
    /\ untitled = {}
    /\ disk = [files |-> EmptyMap, list |-> persist_list_locked(OpsAgentData(<<>>, None, <<>>))]

InitAgent ==
    /\ runs = [r \in RunIds |-> IdleRun]
    /\ resolvers = [r \in ResolverIds |-> IdleResolver]
    /\ events = <<>>
    /\ invoked = <<>>
    /\ agentCalls = 0
    /\ resolveCalls = {}
    /\ settled = {}
    /\ lastResolve = NoResolve
    /\ lastDelete = NoDelete

----------------------------------------------------------------------------
(* Session lifecycle: open, close, input, resize, the worker, the status   *)
(* cache, and execute_command called by one client.                        *)

InputData == {<<>>, <<"x">>}

InitSession ==
    /\ sessions = EmptyMap
    /\ pty_channels = {}
    /\ inbox = [sid \in SessionIds |-> <<>>]
    /\ status_cache = {}
    /\ worker = [sid \in SessionIds |-> [pc |-> "none", keep_running |-> FALSE]]
    /\ chanEof = [sid \in SessionIds |-> FALSE]
    /\ open = IdleOpen
    /\ exec = [e \in ExecIds |-> IdleExec]
    /\ fetch = IdleFetch
    /\ nextSid = 1
    /\ calls = 0
    /\ lastCall = NoCall
    /\ closed = [any |-> {}, settled |-> {}]
    /\ appended = [sid \in SessionIds |-> <<>>]
    /\ chain = [sid \in SessionIds |-> [dir |-> RemoteHome, oldpwd |-> None, clean |-> TRUE]]
    /\ InitStore
    /\ InitAgent
    /\ InitLocks
    /\ InitSink
    /\ InitStart

\* the ids a client can name: open draws a fresh Uuid, so an id of OpenIds is
\* known to nobody before put_session has listed it
KnownIds == {sid \in SessionIds : sid < nextSid \/ sid \notin OpenIds}

NextSession ==
    \/ OpenStart /\ UNCHANGED otherVars
    \/ OpenWorker /\ UNCHANGED otherVars
    \/ \E sid \in KnownIds : close_shell_session(sid) /\ UNCHANGED otherVars
    \/ \E sid \in KnownIds, data \in InputData : pty_write_input(sid, data) /\ UNCHANGED otherVars
    \/ \E sid \in KnownIds : pty_resize(sid) /\ UNCHANGED otherVars
    \/ \E sid \in SessionIds : WorkerDrain(sid) /\ UNCHANGED otherVars
    \/ \E sid \in SessionIds : WorkerWrite(sid) /\ UNCHANGED otherVars
    \/ \E sid \in SessionIds : WorkerBackoff(sid) /\ UNCHANGED otherVars
    \/ \E sid \in SessionIds : WorkerReadChunk(sid, <<"a">>) /\ UNCHANGED appended /\ UNCHANGED otherVars
    \/ \E sid \in SessionIds : WorkerReadNone(sid) /\ UNCHANGED otherVars
    \/ \E sid \in SessionIds : WorkerExit(sid) /\ UNCHANGED otherVars
    \/ \E sid \in SessionIds : RemoteEof(sid) /\ UNCHANGED otherVars
    \/ \E sid \in KnownIds : FetchStart(sid) /\ UNCHANGED otherVars
    \/ FetchFinish /\ UNCHANGED otherVars
    \/ \E sid \in KnownIds : ExecStart(1, sid, PlainCommand) /\ UNCHANGED otherVars
    \/ ExecRunPlain(1, [stdout |-> <<"o", "\n">>, stderr |-> <<>>, exit |-> 0]) /\ UNCHANGED otherVars
    \/ ExecRunFail(1) /\ UNCHANGED otherVars
    \/ ExecWriteBack(1) /\ UNCHANGED otherVars

SpecSession == InitSession /\ [][NextSession]_sessVars

----------------------------------------------------------------------------
(* execute_command from two clients on an open session whose worker runs *)

ExecCommands == {<<"c", "d", " ", "/">>, <<"c", "d", " ", "x">>, PlainCommand, BlankCommand}

\* the state after open_shell_session has returned session 1
InitExec ==
    /\ sessions = (1 :> NewSession(PwdString(RemoteHome)))
    /\ pty_channels = {1}
    /\ inbox = [sid \in SessionIds |-> <<>>]
    /\ status_cache = {}
    /\ worker = [sid \in SessionIds |->
            IF sid = 1 THEN [pc |-> "drain", keep_running |-> TRUE]
            ELSE [pc |-> "none", keep_running |-> FALSE]]
    /\ chanEof = [sid \in SessionIds |-> FALSE]
    /\ open = IdleOpen
    /\ exec = [e \in ExecIds |-> IdleExec]
    /\ fetch = IdleFetch
    /\ nextSid = 2
    /\ calls = 0
    /\ lastCall = NoCall
    /\ closed = [any |-> {}, settled |-> {}]
    /\ appended = [sid \in SessionIds |-> <<>>]
    /\ chain = [sid \in SessionIds |-> [dir |-> RemoteHome, oldpwd |-> None, clean |-> TRUE]]
    /\ InitStore
    /\ InitAgent
    /\ InitLocks
    /\ InitSink
    /\ InitStart

NextExec ==
    \/ close_shell_session(1) /\ UNCHANGED otherVars
    \/ WorkerDrain(1) /\ UNCHANGED otherVars
    \/ WorkerReadChunk(1, <<"a">>) /\ UNCHANGED appended /\ UNCHANGED otherVars
    \/ WorkerReadNone(1) /\ UNCHANGED otherVars
    \/ WorkerExit(1) /\ UNCHANGED otherVars
    \/ \E e \in ExecIds, command \in ExecCommands : ExecStart(e, 1, command) /\ UNCHANGED otherVars
    \/ \E e \in ExecIds : ExecRunCd(e) /\ UNCHANGED chain /\ UNCHANGED otherVars
    \/ \E e \in ExecIds, r \in PlainResults : ExecRunPlain(e, r) /\ UNCHANGED otherVars
    \/ \E e \in ExecIds : ExecRunFail(e) /\ UNCHANGED otherVars
    \/ \E e \in ExecIds : ExecWriteBack(e) /\ UNCHANGED otherVars
    \/ \E e \in ExecIds : ExecReadBack(e) /\ UNCHANGED otherVars

SpecExec == InitExec /\ [][NextExec]_sessVars

----------------------------------------------------------------------------
(* cd commands executed one after another on one session *)

\* one shell in which the cd targets run so far were chained, starting in the
\* session's initial directory, and whether every path it printed for pwd was
\* free of backslashes; a cd that fails leaves that shell where it is
ChainAfter(c, cd_target) ==
    LET step == RemoteCd([dir |-> c.dir, oldpwd |-> c.oldpwd], ShellWord(cd_target, "none"))
    IN [dir |-> step.sh.dir, oldpwd |-> step.sh.oldpwd,
        clean |-> c.clean /\ ~HasBackslash(PwdString(step.sh.dir))]

NextCd ==
    \/ \E command \in CdCommands : ExecStart(1, 1, command) /\ UNCHANGED otherVars
    \/ ExecRunCd(1) /\ chain' = [chain EXCEPT ![1] = ChainAfter(@, CdTarget(exec[1].command))] /\ UNCHANGED otherVars
    \/ ExecRunFail(1) /\ UNCHANGED otherVars
    \/ ExecWriteBack(1) /\ UNCHANGED otherVars
    \/ ExecReadBack(1) /\ UNCHANGED otherVars

SpecCd == InitExec /\ [][NextCd]_sessVars

----------------------------------------------------------------------------
(* the worker appending output chunks to one session *)

NextTrim ==
    \/ WorkerDrain(1) /\ UNCHANGED otherVars
    \/ \E chunk \in Chunks :
          /\ Len(appended[1]) + Len(chunk) <= MaxAppended
          /\ WorkerReadChunk(1, chunk)
          /\ appended' = [appended EXCEPT ![1] = @ \o chunk] /\ UNCHANGED otherVars

SpecTrim == InitExec /\ [][NextTrim]_sessVars

----------------------------------------------------------------------------
(* Claims about sessions *)

\* C4: once close(id) has returned, every later execute, resize and writeInput
\* that carries data against that id returns NotFound.
C4_AfterCloseNotFound ==
    (/\ lastCall.op \in {"write", "resize", "execute"}
     /\ lastCall.late
     /\ ~(lastCall.op = "write" /\ lastCall.data = <<>>))
        => lastCall.res = "NotFound"

\* C5: close on an id that is absent from the registry returns success and
\* leaves the registry, the inbox map and the status cache unchanged.
C5_CloseAbsentChangesNothing ==
    [][(/\ lastCall'.op = "close"
        /\ lastCall'.n # lastCall.n
        /\ lastCall'.sid \notin DOMAIN sessions)
            => (/\ lastCall'.res = "Ok"
                /\ sessions' = sessions
                /\ pty_channels' = pty_channels
                /\ status_cache' = status_cache)]_sessVars

\* C7: an execute call with a cd command whose remote exit code is non-zero
\* changes no session (current_dir and last_output stay), and the current_dir
\* of its result is the one the registry holds when the call returns.
C7_FailedCdChangesNothing ==
    [][\A e \in ExecIds :
        (/\ exec[e].pc \in {"wb", "rb"}
         /\ IsCd(exec[e].command)
         /\ exec[e].exit # 0
         /\ exec'[e] # exec[e])
            => (/\ sessions' = sessions
                /\ (exec'[e].pc = "idle" /\ lastCall'.res = "Ok")
                        => (/\ lastCall'.exit = exec[e].exit
                            /\ lastCall'.current_dir = sessions'[exec[e].sid].current_dir))
      ]_sessVars

\* a failed cd returned its result after another call had moved the session to
\* another directory than the one the failed call started from
C7_Witness ==
    /\ lastCall.op = "execute"
    /\ lastCall.res = "Ok"
    /\ IsCd(lastCall.data)
    /\ lastCall.exit # 0
    /\ lastCall.current_dir = <<"/">>
    /\ 1 \in DOMAIN sessions
    /\ sessions[1].current_dir = <<"/">>

\* C6: after every sequence of cd executes made one after another, the
\* session's current_dir equals the path the remote host prints for pwd after
\* chaining the targets in one shell from the session's initial directory.
\* Stated for the chains along which no printed path holds a backslash, which
\* sanitize_cwd would rewrite to a slash.
C6_CdChain ==
    (exec[1].pc = "idle" /\ 1 \in DOMAIN sessions /\ chain[1].clean)
        => sessions[1].current_dir = PwdString(chain[1].dir)

\* the characters of a string, each one the bytes that encode it
RECURSIVE CharsOf(_)
CharsOf(s) ==
    IF s = <<>> THEN <<>>
    ELSE LET rest == CharsOf(Tail(s))
         IN IF rest # <<>> /\ IsContinuation(rest[1][1])
            THEN <<<<Head(s)>> \o rest[1]>> \o Tail(rest)
            ELSE <<<<Head(s)>>>> \o rest

RECURSIVE Flatten(_)
Flatten(chars) == IF chars = <<>> THEN <<>> ELSE Head(chars) \o Flatten(Tail(chars))

\* C8: when the chunks the worker appended to a session total more than
\* MAX_SESSION_LAST_OUTPUT_CHARS characters, the output buffer holds exactly the
\* last MAX_SESSION_LAST_OUTPUT_CHARS characters of their concatenation, whole.
C8_BufferIsLastChars ==
    LET chars == CharsOf(appended[1])
        n == Len(chars)
    IN n > MAX_SESSION_LAST_OUTPUT_CHARS
        => sessions[1].last_output =
              Flatten(SubSeq(chars, n - MAX_SESSION_LAST_OUTPUT_CHARS + 1, n))

\* more characters than the cap were appended, and the buffer holds more bytes
\* than characters and begins with a two-byte character
C8_Witness ==
    /\ Len(CharsOf(appended[1])) > MAX_SESSION_LAST_OUTPUT_CHARS
    /\ Len(sessions[1].last_output) > MAX_SESSION_LAST_OUTPUT_CHARS
    /\ sessions[1].last_output[1] = "C3"

\* C9: in every reachable state every session's output buffer holds at most
\* MAX_SESSION_LAST_OUTPUT_CHARS characters.
C9_BufferWithinCap ==
    \A sid \in DOMAIN sessions :
        CharCount(sessions[sid].last_output) <= MAX_SESSION_LAST_OUTPUT_CHARS

----------------------------------------------------------------------------
(* ops_agent/store.rs: conversations and pending actions (in memory)        *)

\* "New Conversation"
DEFAULT_CONVERSATION_TITLE ==
    <<"N", "e", "w", " ", "C", "o", "n", "v", "e", "r", "s", "a", "t", "i", "o", "n">>

AUTO_TITLE_MAX_CHARS == 10

Ellipsis == <<".", ".", ".">>

\* derive_conversation_title: the title given to create_conversation
derive_conversation_title(title) ==
    LET source == IF title = None THEN <<>> ELSE Trim(title[1])
        compact == ReplaceByte(source, "\n", " ")
    IN IF source = <<>> THEN DEFAULT_CONVERSATION_TITLE
       ELSE IF CharCount(compact) > 24 THEN TakeChars(compact, 24) \o Ellipsis
       ELSE TakeChars(compact, 24)

should_auto_rename_title(current_title) ==
    LET normalized == Trim(current_title)
    IN normalized = <<>> \/ normalized = DEFAULT_CONVERSATION_TITLE

\* a title derivation that never marks the cut
derive_title_no_ellipsis(prompt) ==
    LET compact == Trim(ReplaceByte(ReplaceByte(prompt, "\r", " "), "\n", " "))
    IN IF compact = <<>> THEN DEFAULT_CONVERSATION_TITLE
       ELSE TakeChars(compact, AUTO_TITLE_MAX_CHARS)

derive_title_from_first_user_prompt(prompt) ==
    LET compact == Trim(ReplaceByte(ReplaceByte(prompt, "\r", " "), "\n", " "))
    IN IF compact = <<>> THEN DEFAULT_CONVERSATION_TITLE
       ELSE IF CharCount(compact) > AUTO_TITLE_MAX_CHARS
       THEN TakeChars(compact, AUTO_TITLE_MAX_CHARS) \o Ellipsis
       ELSE TakeChars(compact, AUTO_TITLE_MAX_CHARS)

HasConversation(convs, id) == \E i \in 1..Len(convs) : convs[i].id = id

\* position(|item| item.id == id) on a Vec that holds the id
ConvIndex(id) == CHOOSE i \in 1..Len(conversations) : conversations[i].id = id

HasAction(id) == \E i \in 1..Len(pending_actions) : pending_actions[i].id = id

ActionIndex(id) == CHOOSE i \in 1..Len(pending_actions) : pending_actions[i].id = id

\* now_rfc3339: time has passed since the last reading, or has not
Now == {t \in {clock, clock + 1} : t <= MaxClock}

\* OpsAgentConversation, without updated_at
NewConversation(id, title, session_id, now) ==
    [id |-> id, title |-> derive_conversation_title(title), session_id |-> session_id,
     messages |-> <<>>, created_at |-> now]

\* create_conversation: the new conversation becomes the active one; its file
\* and the list file are written
create_conversation(title, session_id) ==
    \E now \in Now :
        LET conversation == NewConversation(nextUuid, title, session_id, now)
        IN /\ clock' = now
           /\ conversations' = Append(conversations, conversation)
           /\ active_conversation_id' = Some(nextUuid)
           /\ nextUuid' = nextUuid + 1
           /\ untitled' = IF title = None THEN untitled \cup {nextUuid} ELSE untitled
           /\ disk' = [files |-> persist_conversation_locked(disk.files, conversation),
                       list |-> persist_list_locked(OpsAgentData(
                                    conversations', active_conversation_id', pending_actions))]

\* ensure_conversation on Some(id): NotFound when absent; else the session is
\* bound when none was (and the conversation's file written), the conversation
\* becomes the active one and the list file is written
ensure_conversation_result(id) ==
    IF HasConversation(conversations, id) THEN "Ok" ELSE "NotFound"

ensure_conversation(id, session_id) ==
    /\ conversations' = [conversations EXCEPT ![ConvIndex(id)].session_id =
                            IF @ = None THEN session_id ELSE @]
    /\ active_conversation_id' = Some(id)
    /\ disk' = [files |-> IF conversations[ConvIndex(id)].session_id = None
                          THEN persist_conversation_locked(disk.files,
                                                           conversations'[ConvIndex(id)])
                          ELSE disk.files,
                list |-> persist_list_locked(OpsAgentData(
                             conversations', active_conversation_id', pending_actions))]

\* a delete_conversation that left the conversation's pending actions behind
delete_conversation_alone(id) ==
    LET kept == SelectSeq(conversations, LAMBDA c : c.id # id)
    IN /\ conversations' = kept
       /\ pending_actions' = pending_actions
       /\ active_conversation_id' =
             IF active_conversation_id # None /\ HasConversation(kept, active_conversation_id[1])
             THEN active_conversation_id
             ELSE IF kept = <<>> THEN None ELSE Some(kept[1].id)
       /\ disk' = [files |-> MapRemove(disk.files, id),
                   list |-> persist_list_locked(OpsAgentData(
                                conversations', active_conversation_id', pending_actions'))]

\* delete_conversation: its pending actions go with it, and the active pointer
\* falls back to the first conversation left when it pointed at the deleted one;
\* its file is removed and the list file is written
delete_conversation_result(id) ==
    IF HasConversation(conversations, id) THEN "Ok" ELSE "NotFound"

delete_conversation(id) ==
    LET kept == SelectSeq(conversations, LAMBDA c : c.id # id)
        active_valid == /\ active_conversation_id # None
                        /\ HasConversation(kept, active_conversation_id[1])
    IN /\ conversations' = kept
       /\ pending_actions' = SelectSeq(pending_actions, LAMBDA a : a.conversation_id # id)
       /\ active_conversation_id' =
             IF active_valid THEN active_conversation_id
             ELSE IF kept = <<>> THEN None ELSE Some(kept[1].id)
       /\ disk' = [files |-> MapRemove(disk.files, id),
                   list |-> persist_list_locked(OpsAgentData(
                                conversations', active_conversation_id', pending_actions'))]

append_message_result(conversation_id, content) ==
    IF Trim(content) = <<>> THEN "Validation"
    ELSE IF ~HasConversation(conversations, conversation_id) THEN "NotFound"
    ELSE "Ok"

\* an append_message that put the new message first
AppendedConversationFirst(conversation, role, trimmed, tool_kind) ==
    [conversation EXCEPT
        !.messages = <<[role |-> role, content |-> trimmed, tool_kind |-> tool_kind]>> \o @]

\* what append_message makes of the conversation, under the write lock
AppendedConversation(conversation, role, trimmed, tool_kind) ==
    LET should_auto_title ==
            /\ role = "User"
            /\ should_auto_rename_title(conversation.title)
            /\ ~\E i \in 1..Len(conversation.messages) : conversation.messages[i].role = "User"
    IN [conversation EXCEPT
            !.messages = Append(@, [role |-> role, content |-> trimmed, tool_kind |-> tool_kind]),
            !.title = IF should_auto_title
                     THEN derive_title_from_first_user_prompt(trimmed) ELSE @]

\* append_message: the conversation's file and the list file are written; an
\* error leaves the store alone
append_message(conversation_id, role, content, tool_kind) ==
    IF append_message_result(conversation_id, content) = "Ok"
    THEN /\ conversations' = [conversations EXCEPT ![ConvIndex(conversation_id)] =
                AppendedConversation(@, role, Trim(content), tool_kind)]
         /\ active_conversation_id' = Some(conversation_id)
         /\ disk' = [files |-> persist_conversation_locked(disk.files,
                                   conversations'[ConvIndex(conversation_id)]),
                     list |-> persist_list_locked(OpsAgentData(
                                  conversations', active_conversation_id', pending_actions))]
    ELSE UNCHANGED <<conversations, active_conversation_id, disk>>

\* create_pending_action: Validation on a blank command, NotFound when the
\* conversation is absent
create_pending_action_result(conversation_id, command) ==
    IF Trim(command) = <<>> THEN "Validation"
    ELSE IF ~HasConversation(conversations, conversation_id) THEN "NotFound"
    ELSE "Ok"

\* create_pending_action on a command and a conversation it accepts: the action
\* is pushed and the list file is written
create_pending_action(conversation_id, session_id, command, reason) ==
    /\ pending_actions' = Append(pending_actions,
            NewAction(nextUuid, conversation_id, session_id, command, reason))
    /\ nextUuid' = nextUuid + 1
    /\ disk' = [disk EXCEPT !.list = persist_list_locked(OpsAgentData(
                    conversations, active_conversation_id, pending_actions'))]

get_pending_action_result(action_id) == IF HasAction(action_id) THEN "Ok" ELSE "NotFound"

\* update_action_status on a present id: whatever the status was, the action
\* takes the new status, output and exit code, and resolved_at becomes now; the
\* file of its conversation, when that is there, and the list file are written
UpdatedAction(action, status, output, exit_code, now) ==
    [action EXCEPT !.status = status, !.resolved_at = Some(now),
                   !.execution_output = output, !.execution_exit_code = exit_code]

update_action_status(action_id, status, output, exit_code) ==
    \E now \in Now :
        /\ clock' = now
        /\ pending_actions' = [pending_actions EXCEPT ![ActionIndex(action_id)] =
                                  UpdatedAction(@, status, output, exit_code, now)]
        /\ LET conversation_id == pending_actions[ActionIndex(action_id)].conversation_id
           IN disk' = [files |-> IF HasConversation(conversations, conversation_id)
                                 THEN persist_conversation_locked(disk.files,
                                          conversations[ConvIndex(conversation_id)])
                                 ELSE disk.files,
                       list |-> persist_list_locked(OpsAgentData(
                                    conversations, active_conversation_id, pending_actions'))]

\* a mark_action_rejected that kept an output on the action
mark_action_rejected_noted(action_id) ==
    update_action_status(action_id, "Rejected", Some(<<"rejected">>), None)

mark_action_rejected(action_id) == update_action_status(action_id, "Rejected", None, None)

\* a mark_action_executed that took a non-zero exit code for a failure
mark_action_executed_zero(action_id, output, exit_code) ==
    update_action_status(action_id, IF exit_code = 0 THEN "Executed" ELSE "Failed",
                         Some(output), IF exit_code = 0 THEN Some(exit_code) ELSE None)

mark_action_executed(action_id, output, exit_code) ==
    update_action_status(action_id, "Executed", Some(output), Some(exit_code))

\* a mark_action_failed that recorded the output and left the action pending
mark_action_failed_pending(action_id, output) ==
    update_action_status(action_id, "Pending", Some(output), None)

mark_action_failed(action_id, output) ==
    update_action_status(action_id, "Failed", Some(output), None)

----------------------------------------------------------------------------
(* ops_agent/store.rs: a store built from the directory                     *)

\* rows.sort_by(created_at): a stable sort
RECURSIVE sort_by_created_at(_)
sort_by_created_at(rows) ==
    IF rows = <<>> THEN <<>>
    ELSE LET last == rows[Len(rows)]
             rest == sort_by_created_at(SubSeq(rows, 1, Len(rows) - 1))
         IN SelectSeq(rest, LAMBDA c : c.created_at <= last.created_at) \o <<last>>
            \o SelectSeq(rest, LAMBDA c : c.created_at > last.created_at)

\* the orders in which read_dir may list the files of the directory
RECURSIVE Listings(_)
Listings(ids) ==
    IF ids = {} THEN {<<>>}
    ELSE UNION {{<<id>> \o rest : rest \in Listings(ids \ {id})} : id \in ids}

\* read_all_conversation_files: every file is read as a conversation, in the
\* order the directory lists them, and the rows are sorted
read_all_conversation_files(files, listing) ==
    sort_by_created_at([i \in 1..Len(listing) |-> conversation_from_json(files[listing[i]])])

\* load_conversations_with_preferred_order: the conversations the list names, in
\* its order, then the others
load_conversations_with_preferred_order(files, listing, preferred) ==
    LET rows == read_all_conversation_files(files, listing)
        named == SelectSeq(preferred, LAMBDA summary : summary.id \in DOMAIN files)
        ordered == [i \in 1..Len(named) |-> conversation_from_json(files[named[i].id])]
        remaining == SelectSeq(rows, LAMBDA c :
                         ~\E i \in 1..Len(preferred) : preferred[i].id = c.id)
    IN IF preferred = <<>> THEN rows ELSE ordered \o remaining

\* load_ops_agent_data, with the list file there as OpsAgentStore::new leaves it
load_ops_agent_data(d, listing) ==
    OpsAgentData(
        load_conversations_with_preferred_order(d.files, listing, d.list.conversations),
        option_from_json(d.list.activeConversationId),
        [i \in 1..Len(d.list.pendingActions) |-> action_from_json(d.list.pendingActions[i])])

\* normalize_data that sorts and leaves the active pointer as loaded
normalize_data_sorted(data) ==
    [data EXCEPT !.conversations = sort_by_created_at(data.conversations)]


normalize_data(data) ==
    LET sorted == sort_by_created_at(data.conversations)
        active_valid == /\ data.active_conversation_id # None
                        /\ HasConversation(sorted, data.active_conversation_id[1])
    IN [data EXCEPT !.conversations = sorted,
                    !.active_conversation_id =
                        IF active_valid THEN @
                        ELSE IF sorted = <<>> THEN None ELSE Some(sorted[1].id)]

\* the data of OpsAgentStore::new on the directory
OpsAgentStore_new(d, listing) == normalize_data(load_ops_agent_data(d, listing))

----------------------------------------------------------------------------
(* ops_agent/service.rs: chat runs and resolve_pending_action               *)

\* an orchestrator that answered with the fixed text whatever the reply
normalized_reply_fixed(reply, fallback) == fallback

normalized_reply(reply, fallback) == IF Trim(reply) = <<>> THEN fallback ELSE reply

STREAM_CHUNK_CHARS == 36

\* a split that counted bytes
RECURSIVE split_stream_chunks_bytes(_, _)
split_stream_chunks_bytes(text, chunk_size) ==
    IF text = <<>> \/ chunk_size = 0 THEN <<>>
    ELSE IF Len(text) <= chunk_size THEN <<text>>
    ELSE <<SubSeq(text, 1, chunk_size)>>
         \o split_stream_chunks_bytes(DrainBytes(text, chunk_size), chunk_size)

RECURSIVE split_stream_chunks(_, _)
split_stream_chunks(text, chunk_size) ==
    IF text = <<>> \/ chunk_size = 0 THEN <<>>
    ELSE IF CharCount(text) <= chunk_size THEN <<text>>
    ELSE LET current == TakeChars(text, chunk_size)
         IN <<current>> \o split_stream_chunks(DrainBytes(text, Len(current)), chunk_size)

RECURSIVE JoinSections(_)
JoinSections(sections) ==
    IF Len(sections) = 1 THEN sections[1]
    ELSE sections[1] \o <<"\n", "\n">> \o JoinSections(Tail(sections))

format_execution_output(stdout, stderr, exit_code) ==
    LET out == IF Trim(stdout) # <<>> THEN <<(<<"stdout:", "\n">> \o TrimEnd(stdout))>> ELSE <<>>
        err == IF Trim(stderr) # <<>> THEN <<(<<"stderr:", "\n">> \o TrimEnd(stderr))>> ELSE <<>>
        sections == IF out \o err = <<>> THEN <<(<<"<empty output>">>)>> ELSE out \o err
    IN JoinSections(sections \o <<(<<"exitCode: ", ToString(exit_code)>>)>>)

WriteCommand == <<"r", "e", "b", "o", "o", "t">>

\* str::to_ascii_lowercase, on the upper-case letters the payloads use
to_ascii_lowercase(s) ==
    LET upper == <<"R", "E", "A", "D", "S", "H", "L", "W", "I", "T">>
        lower == <<"r", "e", "a", "d", "s", "h", "l", "w", "i", "t">>
    IN [i \in 1..Len(s) |->
           IF \E k \in 1..Len(upper) : upper[k] = s[i]
           THEN lower[CHOOSE k \in 1..Len(upper) : upper[k] = s[i]]
           ELSE s[i]]

\* a normalization that kept the kind the planner named
normalize_planned_reply_kind_kept(payload) ==
    LET tool == IF payload.tool = None
                THEN [kind |-> Some(<<"n", "o", "n", "e">>), command |-> None, reason |-> None]
                ELSE payload.tool[1]
        name == to_ascii_lowercase(Trim(IF tool.kind = None THEN <<>> ELSE tool.kind[1]))
    IN [reply |-> Trim(IF payload.reply = None THEN <<>> ELSE payload.reply[1]),
        kind |-> IF name = <<"r", "e", "a", "d", "_", "s", "h", "e", "l", "l">> THEN "ReadShell"
                 ELSE IF name = <<"w", "r", "i", "t", "e", "_", "s", "h", "e", "l", "l">>
                 THEN "WriteShell"
                 ELSE "None",
        command |-> IF tool.command = None \/ Trim(tool.command[1]) = <<>> THEN None
                    ELSE Some(Trim(tool.command[1])),
        reason |-> IF tool.reason = None THEN None ELSE Some(Trim(tool.reason[1]))]

\* normalize_planned_reply: the reply, the command and the reason are trimmed, a
\* blank command is no command, the kind is read whatever its case, and without
\* a command the kind is None
normalize_planned_reply(payload) ==
    LET tool == IF payload.tool = None
                THEN [kind |-> Some(<<"n", "o", "n", "e">>), command |-> None, reason |-> None]
                ELSE payload.tool[1]
        name == to_ascii_lowercase(Trim(IF tool.kind = None THEN <<>> ELSE tool.kind[1]))
        kind == IF name = <<"r", "e", "a", "d", "_", "s", "h", "e", "l", "l">> THEN "ReadShell"
                ELSE IF name = <<"w", "r", "i", "t", "e", "_", "s", "h", "e", "l", "l">>
                THEN "WriteShell"
                ELSE "None"
        command == IF tool.command = None \/ Trim(tool.command[1]) = <<>> THEN None
                   ELSE Some(Trim(tool.command[1]))
    IN [reply |-> Trim(IF payload.reply = None THEN <<>> ELSE payload.reply[1]),
        kind |-> IF command = None THEN "None" ELSE kind,
        command |-> command,
        reason |-> IF tool.reason = None THEN None ELSE Some(Trim(tool.reason[1]))]

\* the planner's reply "ok" with tool kind read_shell and an empty command
EmptyCommandPayload ==
    [reply |-> Some(<<"o", "k">>),
     tool |-> Some([kind |-> Some(<<"r", "e", "a", "d", "_", "s", "h", "e", "l", "l">>),
                    command |-> Some(<<>>), reason |-> Some(<<"x">>)])]

\* what the planner may answer: no tool at all (as parse_plan_payload takes a
\* text that is no JSON), a read and a write with their commands, a tool with a
\* missing, an empty or a blank command, and a kind that is none of the three
Payloads ==
    {[reply |-> Some(<<"o", "k">>), tool |-> None],
     [reply |-> None,
      tool |-> Some([kind |-> Some(<<" ", "R", "E", "A", "D", "_", "s", "h", "e", "l", "l">>),
                     command |-> Some(<<" ">> \o PlainCommand \o <<"\n">>), reason |-> None])],
     [reply |-> None,
      tool |-> Some([kind |-> Some(<<"w", "r", "i", "t", "e", "_", "s", "h", "e", "l", "l">>),
                     command |-> Some(WriteCommand), reason |-> Some(<<" ", "w", "h", "y">>)])],
     EmptyCommandPayload,
     [reply |-> Some(<<" ">>),
      tool |-> Some([kind |-> Some(<<"w", "r", "i", "t", "e", "_", "s", "h", "e", "l", "l">>),
                     command |-> Some(<<" ", "\t">>), reason |-> None])],
     [reply |-> None,
      tool |-> Some([kind |-> Some(<<"r", "e", "a", "d", "_", "s", "h", "e", "l", "l">>),
                     command |-> None, reason |-> None])],
     [reply |-> None,
      tool |-> Some([kind |-> Some(<<"r", "m">>), command |-> Some(PlainCommand),
                     reason |-> None])]}

\* the plans plan_reply may return
Plans == {normalize_planned_reply(payload) : payload \in Payloads}

ExecOutcomes ==
    {[ok |-> TRUE, stdout |-> <<"o", "\n">>, stderr |-> <<>>, exit_code |-> 0, error |-> <<>>],
     [ok |-> TRUE, stdout |-> <<>>, stderr |-> <<"e">>, exit_code |-> 1, error |-> <<>>],
     [ok |-> FALSE, stdout |-> <<>>, stderr |-> <<>>, exit_code |-> 0,
      error |-> <<"not found: shell session">>]}

\* OpsAgentStreamEvent::new with the pending action and the full answer set:
\* the event carries no chunk
Event(r, stage, pending_action, full_answer) ==
    [run_id |-> r, stage |-> stage, pending_action |-> pending_action,
     full_answer |-> full_answer, chunk |-> None]

Invocation(by, r, action_id, session_id, command) ==
    [by |-> by, run |-> r, action_id |-> action_id, session_id |-> session_id, command |-> command]

\* the match on plan.tool.kind in process_chat_stream
PlanBranch(plan, session_id) ==
    IF plan.kind = "ReadShell"
    THEN (IF plan.command = None \/ session_id = None THEN "answer" ELSE "read")
    ELSE IF plan.kind = "WriteShell"
    THEN (IF plan.command = None THEN "answer" ELSE "create")
    ELSE "answer"

\* the answer of a run that calls no tool
PlanAnswer(plan, session_id) ==
    IF plan.kind = "ReadShell"
    THEN (IF plan.command = None
          THEN normalized_reply(plan.reply, <<"<no read_shell command>">>)
          ELSE normalized_reply(plan.reply, <<"<no ssh session for read_shell>">>))
    ELSE IF plan.kind = "WriteShell"
    THEN normalized_reply(plan.reply, <<"<no write_shell command>">>)
    ELSE normalized_reply(plan.reply, <<"<acknowledged>">>)

\* a resolve that let every input through to the executor
ApprovedAlways(approve) == TRUE

\* the test of input.approve in resolve_pending_action
Approved(approve) == approve

\* a resolve that took every action for a pending one
IsPendingAlways(action) == TRUE

\* the test of action.status in resolve_pending_action
IsPending(action) == action.status = "Pending"

\* create_conversation, called by a client
CreateConversation(title, session_id) ==
    /\ agentCalls < MaxAgentCalls
    /\ agentCalls' = agentCalls + 1
    /\ create_conversation(title, session_id)
    /\ UNCHANGED <<pending_actions, runs, resolvers, events, invoked, resolveCalls,
                   settled, lastResolve>>

\* append_message, called on the store as its tests call it
AppendMessage(conversation_id, role, content, tool_kind) ==
    /\ agentCalls < MaxAgentCalls
    /\ agentCalls' = agentCalls + 1
    /\ append_message(conversation_id, role, content, tool_kind)
    /\ UNCHANGED <<pending_actions, nextUuid, clock, untitled, runs, resolvers, events, invoked,
                   resolveCalls, settled, lastResolve>>

\* delete_conversation, called by a client
DeleteConversation(id) ==
    /\ agentCalls < MaxAgentCalls
    /\ agentCalls' = agentCalls + 1
    /\ lastDelete' = [n |-> agentCalls + 1, id |-> id, res |-> delete_conversation_result(id)]
    /\ IF delete_conversation_result(id) = "Ok"
       THEN delete_conversation(id)
       ELSE UNCHANGED <<conversations, pending_actions, active_conversation_id, disk>>
    /\ UNCHANGED <<nextUuid, clock, untitled, runs, resolvers, events, invoked, resolveCalls,
                   settled, lastResolve>>

\* set_active_conversation, called by a client: NotFound when absent; else the
\* conversation becomes the active one and the list file is written
SetActiveConversation(id) ==
    /\ agentCalls < MaxAgentCalls
    /\ agentCalls' = agentCalls + 1
    /\ IF HasConversation(conversations, id)
       THEN /\ active_conversation_id' = Some(id)
            /\ disk' = [disk EXCEPT !.list = persist_list_locked(OpsAgentData(
                            conversations, active_conversation_id', pending_actions))]
       ELSE UNCHANGED <<active_conversation_id, disk>>
    /\ UNCHANGED <<conversations, pending_actions, nextUuid, clock, untitled, runs, resolvers,
                   events, invoked, resolveCalls, settled, lastResolve>>

\* create_pending_action, called on the store as its tests call it
CreatePendingAction(conversation_id, session_id, command) ==
    /\ agentCalls < MaxAgentCalls
    /\ agentCalls' = agentCalls + 1
    /\ IF create_pending_action_result(conversation_id, command) = "Ok"
       THEN create_pending_action(conversation_id, session_id, command, <<"requested by agent">>)
       ELSE UNCHANGED <<pending_actions, nextUuid, disk>>
    /\ UNCHANGED <<conversations, active_conversation_id, clock, untitled, runs, resolvers,
                   events, invoked, resolveCalls, settled, lastResolve>>

\* mark_action_rejected, mark_action_executed or mark_action_failed, called on
\* the store as its tests call them
MarkAction(action_id, status) ==
    /\ agentCalls < MaxAgentCalls
    /\ agentCalls' = agentCalls + 1
    /\ IF ~HasAction(action_id) THEN UNCHANGED <<pending_actions, clock, disk>>
       ELSE IF status = "Rejected" THEN mark_action_rejected(action_id)
       ELSE IF status = "Executed" THEN mark_action_executed(action_id, <<"o">>, 0)
       ELSE mark_action_failed(action_id, <<"e">>)
    /\ UNCHANGED <<conversations, active_conversation_id, nextUuid, untitled, runs, resolvers,
                   events, invoked, resolveCalls, settled, lastResolve>>

\* start_chat_stream without the check of the trimmed question
ChatStartUnchecked(r, conversation_id, question, session_id) ==
    /\ runs[r].pc = "idle"
    /\ agentCalls < MaxAgentCalls
    /\ agentCalls' = agentCalls + 1
    /\ LET started(id) == [IdleRun EXCEPT !.pc = "append_user", !.conversation_id = id,
                                          !.session_id = session_id, !.question = Trim(question)]
       IN IF conversation_id = None
          THEN /\ create_conversation(None, session_id)
               /\ runs' = [runs EXCEPT ![r] = started(nextUuid)]
          ELSE IF ensure_conversation_result(conversation_id[1]) = "Ok"
          THEN /\ ensure_conversation(conversation_id[1], session_id)
               /\ runs' = [runs EXCEPT ![r] = started(conversation_id[1])]
               /\ UNCHANGED <<nextUuid, clock, untitled>>
          ELSE UNCHANGED <<conversations, active_conversation_id, nextUuid, clock, untitled,
                           disk, runs>>
    /\ UNCHANGED <<pending_actions, resolvers, events, invoked, resolveCalls, settled,
                   lastResolve>>

\* start_chat_stream up to ensure_conversation: a blank question and an absent
\* conversation end the call with an error
ChatStart(r, conversation_id, question, session_id) ==
    /\ runs[r].pc = "idle"
    /\ agentCalls < MaxAgentCalls
    /\ agentCalls' = agentCalls + 1
    /\ LET started(id) == [IdleRun EXCEPT !.pc = "append_user", !.conversation_id = id,
                                          !.session_id = session_id, !.question = Trim(question)]
       IN IF Trim(question) = <<>>
          THEN UNCHANGED <<conversations, active_conversation_id, nextUuid, clock, untitled,
                           disk, runs>>
          ELSE IF conversation_id = None
          THEN /\ create_conversation(None, session_id)
               /\ runs' = [runs EXCEPT ![r] = started(nextUuid)]
          ELSE IF ensure_conversation_result(conversation_id[1]) = "Ok"
          THEN /\ ensure_conversation(conversation_id[1], session_id)
               /\ runs' = [runs EXCEPT ![r] = started(conversation_id[1])]
               /\ UNCHANGED <<nextUuid, clock, untitled>>
          ELSE UNCHANGED <<conversations, active_conversation_id, nextUuid, clock, untitled,
                           disk, runs>>
    /\ UNCHANGED <<pending_actions, resolvers, events, invoked, resolveCalls, settled,
                   lastResolve>>

\* start_chat_stream: the question is appended and the run is spawned; an error
\* of append_message ends the call
ChatAppendUser(r) ==
    /\ runs[r].pc = "append_user"
    /\ append_message(runs[r].conversation_id, "User", runs[r].question, None)
    /\ runs' = IF append_message_result(runs[r].conversation_id, runs[r].question) = "Ok"
               THEN [runs EXCEPT ![r].pc = "spawned"]
               ELSE [runs EXCEPT ![r] = IdleRun]
    /\ UNCHANGED <<pending_actions, nextUuid, clock, untitled, resolvers, events, invoked,
                   agentCalls, resolveCalls, settled, lastResolve>>

\* process_chat_stream: Started is emitted and the history is read; an absent
\* conversation ends the run with Error
RunStarted(r) ==
    /\ runs[r].pc = "spawned"
    /\ IF HasConversation(conversations, runs[r].conversation_id)
       THEN /\ events' = Append(events, Event(r, "Started", None, None))
            /\ runs' = [runs EXCEPT ![r].pc = "plan"]
       ELSE /\ events' = events \o <<Event(r, "Started", None, None), Event(r, "Error", None, None)>>
            /\ runs' = [runs EXCEPT ![r].pc = "done"]
    /\ UNCHANGED <<storeVars, resolvers, invoked, agentCalls, resolveCalls, settled, lastResolve>>

\* plan_reply answers: the planner's payload is normalized to a plan
RunPlan(r, payload) ==
    /\ runs[r].pc = "plan"
    /\ LET plan == normalize_planned_reply(payload)
           branch == PlanBranch(plan, runs[r].session_id)
       IN runs' = [runs EXCEPT ![r].pc = branch, ![r].payload = payload, ![r].plan = plan,
                       ![r].answer = IF branch = "answer"
                                     THEN PlanAnswer(plan, runs[r].session_id) ELSE <<>>]
    /\ UNCHANGED <<storeVars, resolvers, events, invoked, agentCalls, resolveCalls, settled,
                   lastResolve>>

\* a run that ended without a word when plan_reply failed
RunPlanFailSilent(r) ==
    /\ runs[r].pc = "plan"
    /\ runs' = [runs EXCEPT ![r].pc = "done"]
    /\ UNCHANGED <<storeVars, resolvers, events, invoked, agentCalls, resolveCalls, settled,
                   lastResolve>>

\* plan_reply fails: the run ends with Error
RunPlanFail(r) ==
    /\ runs[r].pc = "plan"
    /\ events' = Append(events, Event(r, "Error", None, None))
    /\ runs' = [runs EXCEPT ![r].pc = "done"]
    /\ UNCHANGED <<storeVars, resolvers, invoked, agentCalls, resolveCalls, settled, lastResolve>>

\* read_shell: the executor is invoked at once
RunRead(r, outcome) ==
    /\ runs[r].pc = "read"
    /\ invoked' = Append(invoked, Invocation("run", r, 0, runs[r].session_id[1],
                                             runs[r].plan.command[1]))
    /\ runs' = IF outcome.ok
               THEN [runs EXCEPT ![r].pc = "tool_note", ![r].execution = outcome]
               ELSE [runs EXCEPT ![r].pc = "answer", ![r].tool_failure = "execution",
                        ![r].answer = normalized_reply(runs[r].plan.reply,
                                          <<"<read_shell failed>: ">> \o outcome.error)]
    /\ UNCHANGED <<storeVars, resolvers, events, agentCalls, resolveCalls, settled, lastResolve>>

\* read_shell: the Tool message is appended (its error is dropped) and ToolRead
\* is emitted
RunToolNote(r) ==
    /\ runs[r].pc = "tool_note"
    /\ LET x == runs[r].execution
           tool_note == <<"read_shell executed.", "\n", "Command: ">> \o runs[r].plan.command[1]
                        \o <<"\n", "Exit: ", ToString(x.exit_code), "\n">>
                        \o format_execution_output(x.stdout, x.stderr, x.exit_code)
       IN append_message(runs[r].conversation_id, "Tool", tool_note, Some("ReadShell"))
    /\ events' = Append(events, [Event(r, "ToolRead", None, None) EXCEPT
                                     !.chunk = Some(<<"read_shell: ">> \o runs[r].plan.command[1])])
    /\ runs' = [runs EXCEPT ![r].pc = "summarize"]
    /\ UNCHANGED <<pending_actions, nextUuid, clock, untitled, resolvers, invoked, agentCalls,
                   resolveCalls, settled, lastResolve>>

\* a run that a failure of the summarizer ended with Error
RunSummarizeAborts(r, summary) ==
    /\ runs[r].pc = "summarize"
    /\ IF HasConversation(conversations, runs[r].conversation_id) /\ summary # None
       THEN /\ runs' = [runs EXCEPT ![r].pc = "answer", ![r].answer = summary[1]]
            /\ UNCHANGED events
       ELSE /\ events' = Append(events, Event(r, "Error", None, None))
            /\ runs' = [runs EXCEPT ![r].pc = "done",
                           ![r].tool_failure = IF summary = None THEN "summarizer" ELSE @]
    /\ UNCHANGED <<storeVars, resolvers, invoked, agentCalls, resolveCalls, settled, lastResolve>>

\* read_shell: the history is read again and the summarizer answers or fails
RunSummarize(r, summary) ==
    /\ runs[r].pc = "summarize"
    /\ IF HasConversation(conversations, runs[r].conversation_id)
       THEN /\ runs' = [runs EXCEPT ![r].pc = "answer",
                           ![r].tool_failure = IF summary = None THEN "summarizer" ELSE @,
                           ![r].answer = IF summary = None
                                         THEN normalized_reply(runs[r].plan.reply,
                                                               <<"<command executed>">>)
                                         ELSE summary[1]]
            /\ UNCHANGED events
       ELSE /\ events' = Append(events, Event(r, "Error", None, None))
            /\ runs' = [runs EXCEPT ![r].pc = "done"]
    /\ UNCHANGED <<storeVars, resolvers, invoked, agentCalls, resolveCalls, settled, lastResolve>>

\* write_shell: the pending action is created, the list file is written and
\* RequiresApproval is emitted with the action; an error of
\* create_pending_action ends the run with Error
RunCreate(r) ==
    /\ runs[r].pc = "create"
    /\ LET x == runs[r]
           reason == IF x.plan.reason = None THEN <<"requested by agent">> ELSE x.plan.reason[1]
           action == NewAction(nextUuid, x.conversation_id, x.session_id, x.plan.command[1], reason)
       IN IF create_pending_action_result(x.conversation_id, x.plan.command[1]) = "Ok"
          THEN /\ create_pending_action(x.conversation_id, x.session_id, x.plan.command[1],
                                        reason)
               /\ events' = Append(events, Event(r, "RequiresApproval", Some(action), None))
               /\ runs' = [runs EXCEPT ![r].pc = "answer", ![r].pending_action = Some(action),
                               ![r].answer = normalized_reply(x.plan.reply,
                                                 <<"<write_shell queued for approval>">>)]
          ELSE /\ events' = Append(events, Event(r, "Error", None, None))
               /\ runs' = [runs EXCEPT ![r].pc = "done"]
               /\ UNCHANGED <<pending_actions, nextUuid, disk>>
    /\ UNCHANGED <<conversations, active_conversation_id, clock, untitled, resolvers, invoked,
                   agentCalls, resolveCalls, settled, lastResolve>>

\* a stream that announced the run once more before its text
DeltasRestarted(r, text) ==
    <<Event(r, "Started", None, None)>>
    \o [i \in 1..Len(split_stream_chunks(text, STREAM_CHUNK_CHARS)) |->
           Event(r, "Delta", None, None)]

\* the Delta events of stream_text_response
Deltas(r, text) ==
    LET chunks == split_stream_chunks(text, STREAM_CHUNK_CHARS)
    IN [i \in 1..Len(chunks) |-> [Event(r, "Delta", None, None) EXCEPT !.chunk = Some(chunks[i])]]

\* the answer is appended and streamed, then Completed; an error of
\* append_message ends the run with Error
RunAnswer(r) ==
    /\ runs[r].pc = "answer"
    /\ append_message(runs[r].conversation_id, "Assistant", runs[r].answer, None)
    /\ events' = IF append_message_result(runs[r].conversation_id, runs[r].answer) = "Ok"
                 THEN events \o Deltas(r, runs[r].answer)
                             \o <<Event(r, "Completed", runs[r].pending_action,
                                          Some(runs[r].answer))>>
                 ELSE Append(events, Event(r, "Error", None, None))
    /\ runs' = [runs EXCEPT ![r].pc = "done"]
    /\ UNCHANGED <<pending_actions, nextUuid, clock, untitled, resolvers, invoked, agentCalls,
                   resolveCalls, settled, lastResolve>>

\* resolve_pending_action returns: a call that returns Ok returns the action terminal
ResolveReturn(r, action_id, approve, late, res) ==
    /\ lastResolve' = [n |-> lastResolve.n + 1, by |-> r, action_id |-> action_id,
                       approve |-> approve, late |-> late, res |-> res]
    /\ settled' = IF res = "Ok" THEN settled \cup {action_id} ELSE settled
    /\ resolvers' = [resolvers EXCEPT ![r] = IdleResolver]

\* resolve_pending_action: the action is read under the read lock; NotFound when
\* absent, Validation when it is not pending; the call is late when a call for
\* the same id had returned the action terminal before
ResolveStart(r, action_id, approve) ==
    /\ resolvers[r].pc = "idle"
    /\ agentCalls < MaxAgentCalls
    /\ agentCalls' = agentCalls + 1
    /\ resolveCalls' = resolveCalls \cup {[action_id |-> action_id, approve |-> approve]}
    /\ LET late == action_id \in settled
       IN IF get_pending_action_result(action_id) = "NotFound"
          THEN ResolveReturn(r, action_id, approve, late, "NotFound")
          ELSE LET action == pending_actions[ActionIndex(action_id)]
               IN IF ~IsPending(action)
                  THEN ResolveReturn(r, action_id, approve, late, "Validation")
                  ELSE /\ resolvers' = [resolvers EXCEPT ![r] =
                              [IdleResolver EXCEPT
                                  !.pc = IF ~Approved(approve) THEN "reject"
                                         ELSE IF action.session_id = None THEN "no_session"
                                         ELSE "exec",
                                  !.action_id = action_id, !.approve = approve,
                                  !.late = late, !.action = action]]
                       /\ UNCHANGED <<lastResolve, settled>>
    /\ UNCHANGED <<storeVars, runs, events, invoked>>

\* reject: mark_action_rejected, NotFound when the action has gone
ResolveReject(r) ==
    /\ resolvers[r].pc = "reject"
    /\ LET x == resolvers[r]
       IN IF HasAction(x.action_id)
          THEN /\ mark_action_rejected(x.action_id)
               /\ resolvers' = [resolvers EXCEPT ![r].pc = "notice",
                                   ![r].updated = pending_actions'[ActionIndex(x.action_id)]]
               /\ UNCHANGED <<lastResolve, settled>>
          ELSE /\ ResolveReturn(r, x.action_id, x.approve, x.late, "NotFound")
               /\ UNCHANGED <<pending_actions, clock, disk>>
    /\ UNCHANGED <<conversations, active_conversation_id, nextUuid, untitled, runs, events,
                   invoked, agentCalls, resolveCalls>>

\* reject: the notice is appended (its error is dropped) and the call returns
ResolveNotice(r) ==
    /\ resolvers[r].pc = "notice"
    /\ LET x == resolvers[r]
           notice == <<"Write-shell action rejected.", "\n", "Command: ">> \o x.updated.command
                     \o <<"\n", "Reason: ">> \o x.updated.reason
       IN /\ append_message(x.updated.conversation_id, "Assistant", notice, Some("WriteShell"))
          /\ ResolveReturn(r, x.action_id, x.approve, x.late, "Ok")
    /\ UNCHANGED <<pending_actions, nextUuid, clock, untitled, runs, events, invoked,
                   agentCalls, resolveCalls>>

\* approve without a session: mark_action_failed and return
ResolveNoSession(r) ==
    /\ resolvers[r].pc = "no_session"
    /\ LET x == resolvers[r]
       IN IF HasAction(x.action_id)
          THEN /\ mark_action_failed(x.action_id, <<"missing session id for write_shell">>)
               /\ ResolveReturn(r, x.action_id, x.approve, x.late, "Ok")
          ELSE /\ ResolveReturn(r, x.action_id, x.approve, x.late, "NotFound")
               /\ UNCHANGED <<pending_actions, clock, disk>>
    /\ UNCHANGED <<conversations, active_conversation_id, nextUuid, untitled, runs, events,
                   invoked, agentCalls, resolveCalls>>

\* approve: ssh_service::execute_command runs the command read at the start
ResolveExec(r, outcome) ==
    /\ resolvers[r].pc = "exec"
    /\ LET x == resolvers[r]
       IN invoked' = Append(invoked, Invocation("resolve", 0, x.action_id,
                                                x.action.session_id[1], x.action.command))
    /\ resolvers' = [resolvers EXCEPT ![r].pc = "mark", ![r].execution = outcome]
    /\ UNCHANGED <<storeVars, runs, events, agentCalls, resolveCalls, settled, lastResolve>>

\* approve: mark_action_executed or mark_action_failed, NotFound when the
\* action has gone
ResolveMark(r) ==
    /\ resolvers[r].pc = "mark"
    /\ LET x == resolvers[r]
           e == x.execution
       IN IF ~HasAction(x.action_id)
          THEN /\ ResolveReturn(r, x.action_id, x.approve, x.late, "NotFound")
               /\ UNCHANGED <<pending_actions, clock, disk>>
          ELSE IF e.ok
          THEN /\ mark_action_executed(x.action_id,
                      format_execution_output(e.stdout, e.stderr, e.exit_code), e.exit_code)
               /\ resolvers' = [resolvers EXCEPT ![r].pc = "tool_message",
                                   ![r].updated = pending_actions'[ActionIndex(x.action_id)]]
               /\ UNCHANGED <<lastResolve, settled>>
          ELSE /\ mark_action_failed(x.action_id, e.error)
               /\ ResolveReturn(r, x.action_id, x.approve, x.late, "Ok")
    /\ UNCHANGED <<conversations, active_conversation_id, nextUuid, untitled, runs, events,
                   invoked, agentCalls, resolveCalls>>

\* approve: the Tool message is appended (its error is dropped) and the call returns
ResolveToolMessage(r) ==
    /\ resolvers[r].pc = "tool_message"
    /\ LET x == resolvers[r]
           e == x.execution
           output == format_execution_output(e.stdout, e.stderr, e.exit_code)
           tool_message == <<"write_shell executed.", "\n", "Command: ">> \o x.updated.command
                           \o <<"\n", "Exit: ", ToString(e.exit_code), "\n">> \o output
       IN /\ append_message(x.updated.conversation_id, "Tool", tool_message, Some("WriteShell"))
          /\ ResolveReturn(r, x.action_id, x.approve, x.late, "Ok")
    /\ UNCHANGED <<pending_actions, nextUuid, clock, untitled, runs, events, invoked,
                   agentCalls, resolveCalls>>

----------------------------------------------------------------------------
(* the agent: chat runs, resolveAction calls and conversation deletes       *)

\* every id handed out so far, and one that was not
UuidsSoFar == 1..nextUuid

SessionOptions == {None, Some(1)}

Questions == {<<"h", "i">>, <<" ">>}

NextAgent ==
    \/ \E r \in RunIds, c \in {None} \cup {Some(id) : id \in UuidsSoFar},
          q \in Questions, sid \in SessionOptions :
            ChatStart(r, c, q, sid) /\ UNCHANGED <<aroundVars, lastDelete>>
    \/ \E r \in RunIds : ChatAppendUser(r) /\ UNCHANGED <<aroundVars, lastDelete>>
    \/ \E r \in RunIds : RunStarted(r) /\ UNCHANGED <<aroundVars, lastDelete>>
    \/ \E r \in RunIds, payload \in Payloads : RunPlan(r, payload) /\ UNCHANGED <<aroundVars, lastDelete>>
    \/ \E r \in RunIds : RunPlanFail(r) /\ UNCHANGED <<aroundVars, lastDelete>>
    \/ \E r \in RunIds, outcome \in ExecOutcomes : RunRead(r, outcome) /\ UNCHANGED <<aroundVars, lastDelete>>
    \/ \E r \in RunIds : RunToolNote(r) /\ UNCHANGED <<aroundVars, lastDelete>>
    \/ \E r \in RunIds, summary \in {None, Some(<<"s">>)} :
            RunSummarize(r, summary) /\ UNCHANGED <<aroundVars, lastDelete>>
    \/ \E r \in RunIds : RunCreate(r) /\ UNCHANGED <<aroundVars, lastDelete>>
    \/ \E r \in RunIds : RunAnswer(r) /\ UNCHANGED <<aroundVars, lastDelete>>
    \/ \E id \in UuidsSoFar : DeleteConversation(id) /\ UNCHANGED aroundVars
    \/ \E r \in ResolverIds, id \in UuidsSoFar, approve \in BOOLEAN :
            ResolveStart(r, id, approve) /\ UNCHANGED <<aroundVars, lastDelete>>
    \/ \E r \in ResolverIds : ResolveReject(r) /\ UNCHANGED <<aroundVars, lastDelete>>
    \/ \E r \in ResolverIds : ResolveNotice(r) /\ UNCHANGED <<aroundVars, lastDelete>>
    \/ \E r \in ResolverIds : ResolveNoSession(r) /\ UNCHANGED <<aroundVars, lastDelete>>
    \/ \E r \in ResolverIds, outcome \in ExecOutcomes : ResolveExec(r, outcome) /\ UNCHANGED <<aroundVars, lastDelete>>
    \/ \E r \in ResolverIds : ResolveMark(r) /\ UNCHANGED <<aroundVars, lastDelete>>
    \/ \E r \in ResolverIds : ResolveToolMessage(r) /\ UNCHANGED <<aroundVars, lastDelete>>

SpecAgent == InitSession /\ [][NextAgent]_vars

\* the steps of the task start_chat_stream spawned for run r
RunStep(r) ==
    \/ RunStarted(r) /\ UNCHANGED <<aroundVars, lastDelete>>
    \/ \E payload \in Payloads : RunPlan(r, payload) /\ UNCHANGED <<aroundVars, lastDelete>>
    \/ RunPlanFail(r) /\ UNCHANGED <<aroundVars, lastDelete>>
    \/ \E outcome \in ExecOutcomes : RunRead(r, outcome) /\ UNCHANGED <<aroundVars, lastDelete>>
    \/ RunToolNote(r) /\ UNCHANGED <<aroundVars, lastDelete>>
    \/ \E summary \in {None, Some(<<"s">>)} : RunSummarize(r, summary) /\ UNCHANGED <<aroundVars, lastDelete>>
    \/ RunCreate(r) /\ UNCHANGED <<aroundVars, lastDelete>>
    \/ RunAnswer(r) /\ UNCHANGED <<aroundVars, lastDelete>>

\* chat runs alone, with conversations deleted under them
NextRun ==
    \/ \E r \in RunIds, c \in {None} \cup {Some(id) : id \in UuidsSoFar},
          q \in Questions, sid \in SessionOptions :
            ChatStart(r, c, q, sid) /\ UNCHANGED <<aroundVars, lastDelete>>
    \/ \E r \in RunIds : ChatAppendUser(r) /\ UNCHANGED <<aroundVars, lastDelete>>
    \/ \E r \in RunIds : RunStep(r)
    \/ \E id \in UuidsSoFar : DeleteConversation(id) /\ UNCHANGED aroundVars

\* the runtime runs every spawned task, and every call the task awaits returns
SpecRunLive ==
    InitSession /\ [][NextRun]_vars /\ \A r \in RunIds : WF_vars(RunStep(r))

----------------------------------------------------------------------------
(* the store alone: conversations are created and messages appended         *)

Alphabet ==
    <<"a", "b", "c", "d", "e", "f", "g", "h", "i", "j", "k", "l", "m",
      "n", "o", "p", "q", "r", "s", "t", "u", "v", "w", "x", "y", "z">>

\* message contents: short, blank, untrimmed, with line breaks, of ten
\* characters in eleven bytes, of eleven characters in twelve bytes, and long
Contents ==
    {<<"z", "z", "z">>,
     <<" ">>,
     <<" ", "h", "\r", "\n", "i", "\n">>,
     SubSeq(Alphabet, 1, 9) \o <<"C3", "A9">>,
     SubSeq(Alphabet, 1, 9) \o <<"C3", "A9", "k">>,
     Alphabet}

Roles == {"User", "Assistant", "Tool"}

Titles == {None, Some(<<"t">>)}

NextTitle ==
    \/ \E title \in Titles : CreateConversation(title, None) /\ UNCHANGED <<aroundVars, lastDelete>>
    \/ \E id \in UuidsSoFar, role \in Roles, content \in Contents :
            AppendMessage(id, role, content, None) /\ UNCHANGED <<aroundVars, lastDelete>>

SpecTitle == InitSession /\ [][NextTitle]_vars

----------------------------------------------------------------------------
(* the store alone: every operation that writes to the directory            *)

NextStore ==
    \/ \E sid \in SessionOptions : CreateConversation(None, sid) /\ UNCHANGED <<aroundVars, lastDelete>>
    \/ \E id \in UuidsSoFar, role \in {"User", "Tool"},
          tool_kind \in {None, Some("ReadShell")} :
            AppendMessage(id, role, <<"z", "z", "z">>, tool_kind) /\ UNCHANGED <<aroundVars, lastDelete>>
    \/ \E id \in UuidsSoFar, command \in {BlankCommand, WriteCommand} :
            CreatePendingAction(id, Some(1), command) /\ UNCHANGED <<aroundVars, lastDelete>>
    \/ \E id \in UuidsSoFar, status \in {"Rejected", "Executed", "Failed"} :
            MarkAction(id, status) /\ UNCHANGED <<aroundVars, lastDelete>>
    \/ \E id \in UuidsSoFar : SetActiveConversation(id) /\ UNCHANGED <<aroundVars, lastDelete>>
    \/ \E id \in UuidsSoFar : DeleteConversation(id) /\ UNCHANGED aroundVars

SpecStore == InitSession /\ [][NextStore]_vars

----------------------------------------------------------------------------
(* Claims about the agent *)

\* the RequiresApproval events of run r
RequiresApprovalEvents(r) ==
    {i \in 1..Len(events) : events[i].run_id = r /\ events[i].stage = "RequiresApproval"}

\* run r planned write_shell with a command and is past create_pending_action
WriteRun(r) ==
    /\ runs[r].plan.kind = "WriteShell"
    /\ runs[r].plan.command # None
    /\ runs[r].pc \in {"answer", "done"}

\* the executor was invoked with the command of action a only by a resolve of
\* a, and a resolveAction(a.id, approve = TRUE) call had been made by then
GatedByApproval(a) ==
    \A k \in 1..Len(invoked) :
        invoked[k].command = a.command
            => /\ invoked[k].by = "resolve"
               /\ invoked[k].action_id = a.id
               /\ [action_id |-> a.id, approve |-> TRUE] \in resolveCalls

\* run r created one action, Pending, and emitted one RequiresApproval with it
OneApprovalRequest(r) ==
    /\ Cardinality(RequiresApprovalEvents(r)) = 1
    /\ \A i \in RequiresApprovalEvents(r) :
          /\ events[i].pending_action # None
          /\ events[i].pending_action = runs[r].pending_action
          /\ events[i].pending_action[1].status = "Pending"
          /\ GatedByApproval(events[i].pending_action[1])

\* C1 as stated: every chat run whose plan is write_shell with a non-empty
\* command creates one PendingAction in status Pending and emits exactly one
\* RequiresApproval event carrying it, and the executor is never invoked with
\* that action's command before a resolveAction(id, approve = TRUE) call.
C1_WriteNeedsApproval ==
    \A r \in RunIds : WriteRun(r) => OneApprovalRequest(r)

\* C1 amended: every chat run whose plan is write_shell with a non-empty
\* command and whose create_pending_action succeeds creates one PendingAction in
\* status Pending and emits exactly one RequiresApproval event carrying it, and
\* the executor is never invoked with that action's command before a
\* resolveAction(id, approve = TRUE) call; when create_pending_action fails (the
\* conversation was deleted meanwhile) the run creates no action, emits no
\* RequiresApproval event and ends with an Error event.  A run never invokes
\* the executor for a write_shell plan.
C1_WriteNeedsApprovalAmended ==
    /\ \A r \in RunIds :
          /\ (WriteRun(r) /\ runs[r].pending_action # None) => OneApprovalRequest(r)
          /\ (WriteRun(r) /\ runs[r].pending_action = None)
                => /\ RequiresApprovalEvents(r) = {}
                   /\ runs[r].pc = "done"
                   /\ events[Len(events)] = Event(r, "Error", None, None)
    /\ \A k \in 1..Len(invoked) :
          /\ invoked[k].by = "run" => runs[invoked[k].run].plan.kind = "ReadShell"
          /\ invoked[k].by = "resolve"
                => [action_id |-> invoked[k].action_id, approve |-> TRUE] \in resolveCalls

\* a write_shell run has completed, and its action was approved and executed
C1_Witness ==
    /\ runs[1].pc = "done"
    /\ WriteRun(1)
    /\ OneApprovalRequest(1)
    /\ events[Len(events)].stage = "Completed"
    /\ \E k \in 1..Len(invoked) : invoked[k].action_id = runs[1].pending_action[1].id
    /\ lastResolve.res = "Ok" /\ lastResolve.approve

Terminal(action) == action.status \in {"Rejected", "Executed", "Failed"}

\* C2: under any interleaving of resolveAction calls, once an action is in a
\* terminal status its status, output, exit code and resolved_at never change
\* again (so it leaves Pending at most once).
C2_TerminalIsFinal ==
    [][\A i \in 1..Len(pending_actions) : \A j \in 1..Len(pending_actions') :
          (/\ Terminal(pending_actions[i])
           /\ pending_actions'[j].id = pending_actions[i].id)
              => pending_actions'[j] = pending_actions[i]]_vars

\* a step of a resolveAction call made after a call for the same id had
\* returned the action terminal
LateResolveStep ==
    \/ lastResolve' # lastResolve /\ lastResolve'.late
    \/ \E r \in ResolverIds :
          resolvers'[r] # resolvers[r] /\ (resolvers[r].late \/ resolvers'[r].late)

\* a late call returns at once and touches nothing
LateResolveIsInert ==
    /\ lastResolve'.n = lastResolve.n + 1
    /\ resolvers' = resolvers
    /\ invoked' = invoked
    /\ conversations' = conversations
    /\ pending_actions' = pending_actions

\* C3 as stated: after a resolveAction call has returned with the action in a
\* terminal status, every later resolveAction call for the same id returns
\* ValidationError, invokes no execution, appends no message and leaves the
\* action unchanged.
C3_LateResolveRejected ==
    [][LateResolveStep => (LateResolveIsInert /\ lastResolve'.res = "Validation")]_vars

\* C3 amended: after a resolveAction call has returned with the action in a
\* terminal status, every later resolveAction call for the same id returns
\* ValidationError while the action is in the store, and NotFound once its
\* conversation has been deleted (the delete removes the action); in both
\* cases it invokes no execution, appends no message and leaves the action
\* unchanged.
C3_LateResolveRejectedAmended ==
    [][LateResolveStep =>
          /\ LateResolveIsInert
          /\ lastResolve'.res = IF HasAction(lastResolve'.action_id)
                                THEN "Validation" ELSE "NotFound"]_vars

\* a late call for an action that was executed has returned ValidationError
C3_Witness ==
    /\ lastResolve.late
    /\ lastResolve.res = "Validation"
    /\ HasAction(lastResolve.action_id)
    /\ pending_actions[ActionIndex(lastResolve.action_id)].status = "Executed"
    /\ invoked # <<>>

\* the title the claim gives a conversation whose first User message is
\* `content`: its first AUTO_TITLE_MAX_CHARS characters with line breaks turned
\* into spaces, and "..." after them when the message is longer
ExpectedTitle(content) ==
    LET spaced == [i \in 1..Len(content) |->
                      IF content[i] \in {"\n", "\r"} THEN " " ELSE content[i]]
        chars == CharsOf(spaced)
    IN IF Len(chars) > AUTO_TITLE_MAX_CHARS
       THEN Flatten(SubSeq(chars, 1, AUTO_TITLE_MAX_CHARS)) \o <<".", ".", ".">>
       ELSE spaced

UserMessages(conversation) ==
    {k \in 1..Len(conversation.messages) : conversation.messages[k].role = "User"}

\* C10: a conversation created without a title keeps the default title until
\* its first User message is appended, and from then on its title is the one
\* derived from that first User message (as stored), whatever was appended later.
C10_TitleFromFirstUserMessage ==
    \A i \in 1..Len(conversations) :
        LET conversation == conversations[i]
            users == UserMessages(conversation)
            first == CHOOSE k \in users : \A j \in users : k <= j
        IN conversation.id \in untitled
            => conversation.title =
                  IF users = {} THEN DEFAULT_CONVERSATION_TITLE
                  ELSE ExpectedTitle(conversation.messages[first].content)

\* an untitled conversation whose first User message has eleven characters,
\* the tenth of two bytes, followed by an Assistant and another User message
C10_Witness ==
    \E i \in 1..Len(conversations) :
        LET conversation == conversations[i]
        IN /\ conversation.id \in untitled
           /\ Len(conversation.messages) = 3
           /\ conversation.messages[1].role = "User"
           /\ conversation.messages[1].content = SubSeq(Alphabet, 1, 9) \o <<"C3", "A9", "k">>
           /\ conversation.messages[2].role = "Assistant"
           /\ conversation.messages[3].role = "User"
           /\ conversation.messages[3].content = <<"z", "z", "z">>
           /\ conversation.title = SubSeq(Alphabet, 1, 9) \o <<"C3", "A9", ".", ".", ".">>

\* C11: after every sequence of store operations, a store built from the
\* directory, in whatever order the directory lists its files, holds the same
\* set of conversation ids, the same messages in the same order in every
\* conversation, and the same pending actions with the same status each.
C11_ReloadRoundTrip ==
    \A listing \in Listings(DOMAIN disk.files) :
        LET loaded == OpsAgentStore_new(disk, listing)
        IN /\ {loaded.conversations[i].id : i \in 1..Len(loaded.conversations)}
                = {conversations[i].id : i \in 1..Len(conversations)}
           /\ Len(loaded.conversations) = Len(conversations)
           /\ \A i \in 1..Len(conversations) : \A j \in 1..Len(loaded.conversations) :
                 loaded.conversations[j].id = conversations[i].id
                     => loaded.conversations[j].messages = conversations[i].messages
           /\ Len(loaded.pending_actions) = Len(pending_actions)
           /\ \A i \in 1..Len(pending_actions) :
                 /\ loaded.pending_actions[i].id = pending_actions[i].id
                 /\ loaded.pending_actions[i].status = pending_actions[i].status

\* a conversation holds a message and its file, and an action of that
\* conversation has been executed
C11_Witness ==
    /\ Len(conversations) >= 1
    /\ Len(conversations[1].messages) >= 1
    /\ conversations[1].id \in DOMAIN disk.files
    /\ \E i \in 1..Len(pending_actions) :
          /\ pending_actions[i].status = "Executed"
          /\ pending_actions[i].conversation_id = conversations[1].id

\* a run that has its plan
Planned(r) == runs[r].pc \notin {"idle", "append_user", "spawned", "plan"}

\* C12: whenever the planner's payload has no command, an empty one or one of
\* whitespace only, the normalized decision has kind None, whatever kind the
\* payload names; and a decision of kind ReadShell or WriteShell carries a
\* command that is not empty.
C12_NoCommandNoTool ==
    \A r \in RunIds :
        Planned(r) =>
            LET payload == runs[r].payload
                plan == runs[r].plan
            IN /\ (\/ payload.tool = None
                   \/ payload.tool[1].command = None
                   \/ Trim(payload.tool[1].command[1]) = <<>>) => plan.kind = "None"
               /\ plan.kind \in {"ReadShell", "WriteShell"}
                     => plan.command # None /\ plan.command[1] # <<>>

\* a payload that names write_shell with a command of whitespace has been
\* normalized to a decision of kind None
C12_Witness ==
    \E r \in RunIds :
        /\ Planned(r)
        /\ runs[r].payload.tool # None
        /\ runs[r].payload.tool[1].kind = Some(<<"w", "r", "i", "t", "e", "_", "s", "h", "e", "l", "l">>)
        /\ runs[r].payload.tool[1].command = Some(<<" ", "\t">>)
        /\ runs[r].plan.kind = "None"

\* the run r has completed with the answer text: Completed carries it, the
\* conversation, when it is still there, ends with it as an assistant message,
\* and the run has invoked no command
CompletedWith(r, text) ==
    /\ \A k \in 1..Len(invoked) : ~(invoked[k].by = "run" /\ invoked[k].run = r)
    /\ \A i \in 1..Len(events) :
          (events[i].run_id = r /\ events[i].stage = "Completed")
              => events[i].full_answer = Some(text)
    /\ HasConversation(conversations, runs[r].conversation_id)
          => LET messages == conversations[ConvIndex(runs[r].conversation_id)].messages
             IN messages[Len(messages)] =
                    [role |-> "Assistant", content |-> text, tool_kind |-> None]

\* the run r took the payload with reply "ok", kind read_shell and an empty
\* command, and has emitted Completed
EmptyCommandRunCompleted(r) ==
    /\ runs[r].pc = "done"
    /\ runs[r].payload = EmptyCommandPayload
    /\ \E i \in 1..Len(events) : events[i].run_id = r /\ events[i].stage = "Completed"

\* C13 as stated: a run on the payload with reply "ok", kind read_shell and an
\* empty command executes no command and its final answer is the fixed text for
\* a read_shell without a command.
C13_EmptyCommandFallback ==
    \A r \in RunIds :
        EmptyCommandRunCompleted(r) => CompletedWith(r, <<"<no read_shell command>">>)

\* C13 amended: a run on the payload with reply "ok", kind read_shell and an
\* empty command executes no command and its final answer is the planner's
\* reply "ok"; a fixed text takes the place of a blank reply only.
C13_EmptyCommandAnswersReply ==
    \A r \in RunIds :
        EmptyCommandRunCompleted(r) => CompletedWith(r, <<"o", "k">>)

\* a run on that payload has completed and its conversation is still stored
C13_Witness ==
    \E r \in RunIds :
        /\ EmptyCommandRunCompleted(r)
        /\ HasConversation(conversations, runs[r].conversation_id)

\* the stages of the events that carry the run id r, in order
StagesOf(r) ==
    LET mine == SelectSeq(events, LAMBDA e : e.run_id = r)
    IN [i \in 1..Len(mine) |-> mine[i].stage]

\* where a sequence of stages stands in the order Started, at most one of
\* ToolRead and RequiresApproval, Deltas, Completed; an Error ends it at once
\* when it stands alone (replaced) or after the events emitted before it
RECURSIVE EventOrder(_, _)
EventOrder(stages, replaced) ==
    IF stages = <<>> THEN "none"
    ELSE LET before == EventOrder(SubSeq(stages, 1, Len(stages) - 1), replaced)
             stage == stages[Len(stages)]
         IN IF before = "none"
            THEN (IF stage = "Started" THEN "started"
                  ELSE IF stage = "Error" /\ replaced THEN "ended" ELSE "bad")
            ELSE IF before \in {"started", "tool", "delta"}
            THEN (IF stage = "Completed" THEN "ended"
                  ELSE IF stage = "Delta" THEN "delta"
                  ELSE IF stage \in {"ToolRead", "RequiresApproval"} /\ before = "started"
                  THEN "tool"
                  ELSE IF stage = "Error" /\ before # "delta" /\ ~replaced THEN "ended"
                  ELSE "bad")
            ELSE "bad"

\* C14 as stated: the events of a run are Started, at most one ToolRead or
\* RequiresApproval, Deltas and one Completed, in this order, or else a single
\* Error event and no other event.
C14_EventOrder == \A r \in RunIds : EventOrder(StagesOf(r), TRUE) # "bad"

\* C14 amended: the events of a run begin with Started, then at most one
\* ToolRead or RequiresApproval, then either Deltas and one Completed or, when
\* a step fails, one Error after the events emitted before the failure; nothing
\* follows Completed or Error.
C14_EventOrderErrorLast == \A r \in RunIds : EventOrder(StagesOf(r), FALSE) # "bad"

\* a run asked for approval and then failed: its events are Started,
\* RequiresApproval, Error
C14_Witness ==
    \E r \in RunIds : StagesOf(r) = <<"Started", "RequiresApproval", "Error">>

\* the terminal events of run r
TerminalEvents(r) ==
    {i \in 1..Len(events) : events[i].run_id = r /\ events[i].stage \in {"Completed", "Error"}}

\* C15: every run startChat accepted emits in the end one terminal event,
\* Completed or Error and never both, and no event of the run follows it.
C15_OneTerminalEvent ==
    \A r \in RunIds :
        /\ [](/\ Cardinality(TerminalEvents(r)) <= 1
              /\ \A i \in TerminalEvents(r) : \A j \in 1..Len(events) :
                    events[j].run_id = r => j <= i)
        /\ (runs[r].pc = "spawned") ~> (TerminalEvents(r) # {})

\* an accepted run has read a command's output and emitted its one terminal
\* event, Completed
C15_Witness ==
    \E r \in RunIds :
        /\ runs[r].pc = "done"
        /\ Cardinality(TerminalEvents(r)) = 1
        /\ \E i \in 1..Len(events) : events[i].run_id = r /\ events[i].stage = "ToolRead"
        /\ events[Len(events)].stage = "Completed"


----------------------------------------------------------------------------
(* the worker thread under a fair scheduler *)

\* a step of the thread that runs run_pty_worker for sid
WorkerStep(sid) ==
    \/ WorkerDrain(sid) /\ UNCHANGED otherVars
    \/ WorkerWrite(sid) /\ UNCHANGED otherVars
    \/ WorkerBackoff(sid) /\ UNCHANGED otherVars
    \/ WorkerReadChunk(sid, <<"a">>) /\ UNCHANGED appended /\ UNCHANGED otherVars
    \/ WorkerReadNone(sid) /\ UNCHANGED otherVars
    \/ WorkerExit(sid) /\ UNCHANGED otherVars

NextWorker ==
    \/ OpenStart /\ UNCHANGED otherVars
    \/ OpenWorker /\ UNCHANGED otherVars
    \/ \E sid \in KnownIds : close_shell_session(sid) /\ UNCHANGED otherVars
    \/ \E sid \in KnownIds, data \in InputData : pty_write_input(sid, data) /\ UNCHANGED otherVars
    \/ \E sid \in KnownIds : pty_resize(sid) /\ UNCHANGED otherVars
    \/ \E sid \in SessionIds : WorkerStep(sid)
    \/ \E sid \in SessionIds : RemoteEof(sid) /\ UNCHANGED otherVars

\* every started worker thread keeps being scheduled; nothing is assumed of
\* the clients or of the remote end
SpecWorkerLive ==
    /\ InitSession
    /\ [][NextWorker]_sessVars
    /\ \A sid \in SessionIds : WF_sessVars(WorkerStep(sid))

\* a Close is queued for a worker that has not returned
CloseSent(sid) ==
    /\ ReceiverAlive(sid)
    /\ "Close" \in {inbox[sid][i] : i \in DOMAIN inbox[sid]}

\* C16: once close has sent Close to a live worker, the worker eventually
\* closes its channel and returns, whatever it was doing (idle, reading, or
\* writing input the channel does not take), and the session is absent from
\* the registry from then on
C16_CloseStopsWorker ==
    \A sid \in SessionIds :
        /\ CloseSent(sid) ~> (worker[sid].pc = "done")
        /\ [](CloseSent(sid) => [](sid \notin DOMAIN sessions))

\* the loop of run_pty_worker has ended or is in its last pass
LoopEnding(sid) == ReceiverAlive(sid) /\ ~worker[sid].keep_running

\* C17: a worker whose loop has ended, for whatever reason, returns, and once
\* it has returned its session is absent from the registry and no inbox is
\* registered for it
C17_StoppedWorkerEvicted ==
    \A sid \in SessionIds :
        /\ [](worker[sid].pc = "done" => sid \notin DOMAIN sessions /\ sid \notin pty_channels)
        /\ LoopEnding(sid) ~> (worker[sid].pc = "done")

\* the worker of session 1 has stopped without any close: the remote end
\* ended the stream or an I/O call failed, and the worker evicted the session
C17_Witness ==
    /\ worker[1].pc = "done"
    /\ closed.any = {}
    /\ 1 \notin DOMAIN sessions
    /\ 1 \notin pty_channels

\* a writeInput or resize call made for an id no inbox is registered for
NoInboxCall ==
    /\ lastCall'.n # lastCall.n
    /\ lastCall'.op \in {"write", "resize"}
    /\ lastCall'.sid \notin pty_channels

BlankExecuteCall ==
    /\ lastCall'.n # lastCall.n
    /\ lastCall'.op = "execute"
    /\ Trim(lastCall'.data) = <<>>
    /\ lastCall'.sid \in DOMAIN sessions

\* C19: for every session of the registry, execute with a blank command
\* returns ValidationError, starts no remote command and leaves the sessions
\* unchanged, whether or not the host can be connected to.
C19_BlankCommandRejected ==
    [][BlankExecuteCall =>
        /\ lastCall'.res = "Validation"
        /\ exec' = exec
        /\ sessions' = sessions]_sessVars

----------------------------------------------------------------------------
(* mutate_session called by the worker and by two executors on one session *)

MutateCommands == {<<"c", "d", " ", "/">>, PlainCommand}

\* bytes the worker appends while the executors run
MaxMutateBytes == 4

NextMutate ==
    \/ close_shell_session(1) /\ UNCHANGED otherVars
    \/ WorkerDrain(1) /\ UNCHANGED otherVars
    \/ \E chunk \in {<<"a">>, <<"b", "C3", "A9">>} :
          /\ Len(appended[1]) + Len(chunk) <= MaxMutateBytes
          /\ WorkerReadChunk(1, chunk)
          /\ appended' = [appended EXCEPT ![1] = @ \o chunk] /\ UNCHANGED otherVars
    \/ WorkerReadNone(1) /\ UNCHANGED otherVars
    \/ WorkerExit(1) /\ UNCHANGED otherVars
    \/ \E e \in ExecIds, command \in MutateCommands : ExecStart(e, 1, command) /\ UNCHANGED otherVars
    \/ \E e \in ExecIds : ExecRunCd(e) /\ UNCHANGED chain /\ UNCHANGED otherVars
    \/ \E e \in ExecIds : ExecRunPlain(e, [stdout |-> <<"o", "\n">>, stderr |-> <<>>, exit |-> 0]) /\ UNCHANGED otherVars
    \/ \E e \in ExecIds : ExecWriteBack(e) /\ UNCHANGED otherVars
    \/ \E e \in ExecIds : ExecReadBack(e) /\ UNCHANGED otherVars

SpecMutate == InitExec /\ [][NextMutate]_sessVars

\* the step is the worker's mutate_session call for sid, with this chunk
WorkerMutates(sid) == appended'[sid] # appended[sid]

WorkerChunk(sid) == SubSeq(appended'[sid], Len(appended[sid]) + 1, Len(appended'[sid]))

\* the step is the mutate_session call of executor e
ExecMutates(e) ==
    /\ exec[e].pc = "wb"
    /\ exec'[e].pc # "wb"
    /\ IsCd(exec[e].command) => CdUpdates(exec[e].exit)

\* what the closure of executor e makes of a session
ExecMutator(e, session) ==
    IF IsCd(exec[e].command) THEN CdMutator(session, exec[e].stdout)
    ELSE PlainMutator(session, exec[e].stdout, exec[e].stderr)

\* the step leaves in the registry what one mutate_session(sid, f) call must:
\* f applied once to the entry the step found, which is also what the call
\* returns, every other entry as it was; nothing changes when sid is absent
MutateApplied(sid, mutated) ==
    IF sid \in DOMAIN sessions
    THEN /\ DOMAIN sessions' = DOMAIN sessions
         /\ sessions'[sid] = mutate_session_returns(sid, mutated)
         /\ \A other \in DOMAIN sessions \ {sid} : sessions'[other] = sessions[other]
    ELSE sessions' = sessions

\* C20: under every interleaving of the mutate calls of the worker and of the
\* executors on one session, each call applies its function exactly once to
\* the entry left by the call before it and returns the entry as its function
\* left it; for an absent id nothing is applied and the executor's call
\* returns NotFound; and no step that is not a mutate call changes an entry
C20_MutateAtomic ==
    [][/\ \A sid \in SessionIds :
            WorkerMutates(sid) =>
                MutateApplied(sid, IF sid \in DOMAIN sessions
                                   THEN append_session_output(sessions[sid], WorkerChunk(sid))
                                   ELSE NoneVal)
       /\ \A e \in ExecIds :
            ExecMutates(e) =>
                /\ MutateApplied(exec[e].sid,
                                 IF exec[e].sid \in DOMAIN sessions
                                 THEN ExecMutator(e, sessions[exec[e].sid])
                                 ELSE NoneVal)
                /\ exec[e].sid \notin DOMAIN sessions => lastCall'.res = "NotFound"
       /\ (/\ \A sid \in SessionIds : ~WorkerMutates(sid)
           /\ \A e \in ExecIds : ~ExecMutates(e))
            => \A sid \in DOMAIN sessions \cap DOMAIN sessions' :
                    sessions'[sid] = sessions[sid]]_sessVars

\* the session holds what two calls made of it one after the other: the
\* worker appended a chunk to the output an executor's plain command had
\* stored, while the other executor's cd is about to write back
C20_Witness ==
    /\ 1 \in DOMAIN sessions
    /\ appended[1] # <<>>
    /\ sessions[1].last_output = format_stdout_stderr(<<"o", "\n">>, <<>>) \o appended[1]
    /\ \E e \in ExecIds : exec[e].pc = "wb" /\ IsCd(exec[e].command)

----------------------------------------------------------------------------
(* The locks of AppState and of OpsAgentStore, and the network calls made   *)
(* between them, in the order each operation's code makes them.             *)

\* a method of AppState or OpsAgentStore: the guard is taken and dropped
\* inside the method
Locked(lock, mode) ==
    <<[i |-> "acquire", on |-> lock, mode |-> mode],
      [i |-> "release", on |-> lock, mode |-> mode]>>

\* connect, run_channel_command, the channel set-up, plan_reply, summarize_tool_result
NetCall(what) == <<[i |-> "call", on |-> what, mode |-> "none"]>>

\* an execute_command that ran the remote command inside the closure of mutate_session
execute_command_locks_across ==
    {Locked("sessions", "read") \o NetCall("connect")
        \o <<[i |-> "acquire", on |-> "sessions", mode |-> "write"]>>
        \o NetCall("run_channel_command")
        \o <<[i |-> "release", on |-> "sessions", mode |-> "write"]>>}

\* execute_command: get_session, connect, run_channel_command, then
\* mutate_session and get_session (cd, exit code 0), get_session alone (cd,
\* other exit codes), or mutate_session (plain command)
execute_command_locks ==
    {Locked("sessions", "read") \o NetCall("connect") \o NetCall("run_channel_command") \o tail :
        tail \in {Locked("sessions", "write") \o Locked("sessions", "read"),
                  Locked("sessions", "read"),
                  Locked("sessions", "write")}}

\* open_shell_session: connect, pwd, put_session, then start_pty_worker:
\* channel_session/request_pty/shell, put_pty_channel
open_shell_session_locks ==
    {NetCall("connect") \o NetCall("run_channel_command") \o Locked("sessions", "write")
        \o NetCall("channel.shell") \o Locked("pty_channels", "write")}

\* fetch_server_status: get_session, connect, the four commands, put_cached_status
fetch_server_status_locks ==
    {Locked("sessions", "read") \o NetCall("connect") \o NetCall("run_channel_command")
        \o Locked("status_cache", "write")}

\* start_chat_stream and process_chat_stream: ensure_conversation,
\* append_message, get_conversation, plan_reply, then the branch of the plan,
\* then append_message
chat_run_locks ==
    LET head == Locked("store", "write") \o Locked("store", "write")
                \o Locked("store", "read") \o NetCall("plan_reply")
        answer == Locked("store", "write")
    IN {head \o answer}
       \cup {head \o execute \o Locked("store", "write") \o Locked("store", "read")
                  \o NetCall("summarize_tool_result") \o answer :
                execute \in execute_command_locks}
       \cup {head \o Locked("store", "write") \o answer}

\* resolve_pending_action: get_pending_action, then mark_action_rejected and
\* append_message; or mark_action_failed; or execute_command,
\* mark_action_executed and append_message; or execute_command ending in an
\* error after connect, and mark_action_failed
resolve_pending_action_locks ==
    LET head == Locked("store", "read")
    IN {head \o Locked("store", "write") \o Locked("store", "write"),
        head \o Locked("store", "write"),
        head \o Locked("sessions", "read") \o NetCall("connect") \o Locked("store", "write")}
       \cup {head \o execute \o Locked("store", "write") \o Locked("store", "write") :
                execute \in execute_command_locks}

LockPaths ==
    [op \in {"open", "execute", "fetch", "chat", "resolve"} |->
        CASE op = "open" -> open_shell_session_locks
          [] op = "execute" -> execute_command_locks
          [] op = "fetch" -> fetch_server_status_locks
          [] op = "chat" -> chat_run_locks
          [] op = "resolve" -> resolve_pending_action_locks]

\* the instruction a caller is at
CallerAt(t) == callers[t].path[callers[t].pc]

CallerRuns(t) == callers[t].op # "idle" /\ callers[t].pc <= Len(callers[t].path)

\* RwLock: a writer excludes everybody, a reader excludes writers
LockFree(t, lock, mode) ==
    \A u \in CallerIds : \A h \in callers[u].held :
        h.on = lock => (u # t /\ mode = "read" /\ h.mode = "read")

\* a client calls one of the operations
CallerStart(t, op, path) ==
    /\ callers[t].op = "idle"
    /\ callers' = [callers EXCEPT ![t] = [IdleCaller EXCEPT !.op = op, !.path = path, !.pc = 1]]

\* RwLock::read or RwLock::write returns the guard
CallerAcquire(t) ==
    /\ CallerRuns(t)
    /\ CallerAt(t).i = "acquire"
    /\ LockFree(t, CallerAt(t).on, CallerAt(t).mode)
    /\ callers' = [callers EXCEPT ![t].held = @ \cup {[on |-> CallerAt(t).on,
                                                       mode |-> CallerAt(t).mode]},
                                  ![t].pc = @ + 1]

\* the guard is dropped
CallerRelease(t) ==
    /\ CallerRuns(t)
    /\ CallerAt(t).i = "release"
    /\ callers' = [callers EXCEPT ![t].held = @ \ {[on |-> CallerAt(t).on,
                                                    mode |-> CallerAt(t).mode]},
                                  ![t].pc = @ + 1]

\* a connect, a remote command or an HTTP call begins
CallerCall(t) ==
    /\ CallerRuns(t)
    /\ CallerAt(t).i = "call"
    /\ callers[t].call = "none"
    /\ callers' = [callers EXCEPT ![t].call = CallerAt(t).on]

\* the call returns and the operation goes on
CallerCallReturns(t) ==
    /\ callers[t].call # "none"
    /\ callers' = [callers EXCEPT ![t].call = "none", ![t].pc = @ + 1]

\* the call returns an error the operation returns with: its guards are dropped
CallerCallFails(t) ==
    /\ callers[t].call # "none"
    /\ callers' = [callers EXCEPT ![t] = IdleCaller]

\* the operation returns
CallerReturns(t) ==
    /\ callers[t].op # "idle"
    /\ callers[t].pc > Len(callers[t].path)
    /\ callers' = [callers EXCEPT ![t] = IdleCaller]

NextLocks ==
    \/ \E t \in CallerIds, op \in DOMAIN LockPaths : \E path \in LockPaths[op] :
            CallerStart(t, op, path) /\ UNCHANGED <<sessVars, storeVars, agentVars, startVars, sinkVars>>
    \/ \E t \in CallerIds : CallerAcquire(t) /\ UNCHANGED <<sessVars, storeVars, agentVars, startVars, sinkVars>>
    \/ \E t \in CallerIds : CallerRelease(t) /\ UNCHANGED <<sessVars, storeVars, agentVars, startVars, sinkVars>>
    \/ \E t \in CallerIds : CallerCall(t) /\ UNCHANGED <<sessVars, storeVars, agentVars, startVars, sinkVars>>
    \/ \E t \in CallerIds : CallerCallReturns(t) /\ UNCHANGED <<sessVars, storeVars, agentVars, startVars, sinkVars>>
    \/ \E t \in CallerIds : CallerCallFails(t) /\ UNCHANGED <<sessVars, storeVars, agentVars, startVars, sinkVars>>
    \/ \E t \in CallerIds : CallerReturns(t) /\ UNCHANGED <<sessVars, storeVars, agentVars, startVars, sinkVars>>

SpecLocks == InitSession /\ [][NextLocks]_vars

\* C21: in open, execute, status fetch, chat run and resolveAction, a caller
\* that waits for a connect, a remote command or a planner/summarizer call
\* holds no lock of the session registry and no lock of the agent store; the
\* locks that write a result back are taken after the call has returned
C21_NoLockAcrossCall ==
    \A t \in CallerIds : callers[t].call # "none" => callers[t].held = {}

\* one caller waits for its remote command, having read the session before,
\* while the other one holds the registry's write lock
C21_Witness ==
    /\ callers[1].op = "execute"
    /\ callers[1].call = "run_channel_command"
    /\ callers[1].held = {}
    /\ [on |-> "sessions", mode |-> "write"] \in callers[2].held

IsPrefix(a, b) == Len(a) <= Len(b) /\ SubSeq(b, 1, Len(a)) = a

\* C22: in every step, the message list a conversation had is a prefix of the
\* one it has afterwards, for every conversation the step keeps: messages are
\* added at the end only and none is changed, removed or reordered, whichever
\* run, resolveAction call or client appends
C22_MessagesOnlyAppended ==
    [][\A i \in 1..Len(conversations) : \A j \in 1..Len(conversations') :
            conversations[i].id = conversations'[j].id
                => IsPrefix(conversations[i].messages, conversations'[j].messages)]_vars

\* a resolveAction call appended its notice between the question and the
\* answer of the run that had created the action
C22_Witness ==
    \E i \in 1..Len(conversations) :
        LET messages == conversations[i].messages
        IN /\ Len(messages) = 3
           /\ messages[1].role = "User"
           /\ messages[2].tool_kind = Some("WriteShell")
           /\ messages[3].role = "Assistant" /\ messages[3].tool_kind = None

\* C23: a deleteConversation call for a conversation of the store returns Ok
\* and leaves the store without the conversation, without its file and
\* without any pending action of it, the active pointer naming a conversation
\* of the store, or nothing when none is left; a call for an unknown id returns
\* NotFound and changes nothing; and no pending action ever names a
\* conversation that is not in the store
C23_DeleteCascades ==
    /\ [][lastDelete'.n # lastDelete.n =>
            LET id == lastDelete'.id
            IN IF HasConversation(conversations, id)
               THEN /\ lastDelete'.res = "Ok"
                    /\ ~HasConversation(conversations', id)
                    /\ id \notin DOMAIN disk'.files
                    /\ \A i \in 1..Len(pending_actions') : pending_actions'[i].conversation_id # id
                    /\ IF conversations' = <<>>
                       THEN active_conversation_id' = None
                       ELSE /\ active_conversation_id' # None
                            /\ HasConversation(conversations', active_conversation_id'[1])
               ELSE /\ lastDelete'.res = "NotFound"
                    /\ UNCHANGED <<conversations, pending_actions, active_conversation_id,
                                   disk>>]_vars
    /\ [](\A i \in 1..Len(pending_actions) :
            HasConversation(conversations, pending_actions[i].conversation_id))

\* the active conversation was deleted with its pending action, and the
\* pointer fell back to the conversation that is left
C23_Witness ==
    /\ lastDelete.res = "Ok"
    /\ lastDelete.id = 2
    /\ nextUuid = 4
    /\ Len(conversations) = 1
    /\ pending_actions = <<>>
    /\ active_conversation_id = Some(1)

----------------------------------------------------------------------------
(* store.rs: OpsAgentStore::new on a directory left by an earlier version    *)

\* OpsAgentData as serde writes it into the legacy file, and as serde reads it
data_to_json(data) ==
    [conversations |-> [i \in 1..Len(data.conversations) |->
                            conversation_to_json(data.conversations[i])],
     activeConversationId |-> option_to_json(data.active_conversation_id),
     pendingActions |-> [i \in 1..Len(data.pending_actions) |->
                            action_to_json(data.pending_actions[i])]]

data_from_json(j) ==
    OpsAgentData([i \in 1..Len(j.conversations) |-> conversation_from_json(j.conversations[i])],
                 option_from_json(j.activeConversationId),
                 [i \in 1..Len(j.pendingActions) |-> action_from_json(j.pendingActions[i])])

\* a load that knows the split layout only
load_ops_agent_data_split(dir, d, listing) ==
    IF dir.list_exists THEN load_ops_agent_data(d, listing)
    ELSE OpsAgentData(read_all_conversation_files(d.files, listing), None, <<>>)

\* load_ops_agent_data on a directory: the list file when it exists; else the
\* conversation files when there are any; else the legacy file, or the default
\* when there is none
load_ops_agent_data_at(dir, d, listing) ==
    LET detached_conversations == read_all_conversation_files(d.files, listing)
    IN IF dir.list_exists THEN load_ops_agent_data(d, listing)
       ELSE IF detached_conversations # <<>>
            THEN OpsAgentData(detached_conversations, None, <<>>)
       ELSE IF dir.legacy = None THEN OpsAgentData(<<>>, None, <<>>)
       ELSE data_from_json(dir.legacy[1])

\* persist_all_locked: every conversation's file is written in order, the files
\* of no conversation are removed, and the list file is written
persist_all_locked(files, data) ==
    LET convs == data.conversations
        valid_ids == {convs[i].id : i \in 1..Len(convs)}
        last(id) == CHOOSE i \in 1..Len(convs) :
                        /\ convs[i].id = id
                        /\ \A j \in (i + 1)..Len(convs) : convs[j].id # id
    IN [files |-> [id \in valid_ids |-> conversation_to_json(convs[last(id)])],
        list |-> persist_list_locked(data)]

\* OpsAgentStore::new: the data is loaded and normalized, the split layout is
\* written and the legacy file is removed
StartStore(listing) ==
    /\ ~root.running
    /\ LET data == normalize_data(load_ops_agent_data_at(root, disk, listing))
       IN /\ conversations' = data.conversations
          /\ active_conversation_id' = data.active_conversation_id
          /\ pending_actions' = data.pending_actions
          /\ disk' = persist_all_locked(disk.files, data)
    /\ root' = Running
    /\ UNCHANGED <<nextUuid, clock, untitled, agentVars, sessVars, lockVars, sinkVars>>

\* the application exits: the store in memory goes, the directory stays
StopStore ==
    /\ root.running
    /\ root' = [root EXCEPT !.running = FALSE]
    /\ conversations' = <<>>
    /\ pending_actions' = <<>>
    /\ active_conversation_id' = None
    /\ UNCHANGED <<disk, nextUuid, clock, untitled, agentVars, sessVars, lockVars, sinkVars>>

\* conversations an earlier version recorded: the older one is listed last
LegacyConversations ==
    <<[id |-> 1, title |-> <<"t">>, session_id |-> Some(1), created_at |-> 1,
       messages |-> <<[role |-> "User", content |-> <<"h", "i">>, tool_kind |-> None]>>],
      [id |-> 2, title |-> DEFAULT_CONVERSATION_TITLE, session_id |-> None, created_at |-> 0,
       messages |-> <<>>]>>

\* the legacy files of the start directories
LegacyData ==
    {OpsAgentData(<<>>, None, <<>>),
     OpsAgentData(SubSeq(LegacyConversations, 1, 1), Some(1), <<>>),
     OpsAgentData(LegacyConversations, Some(2), <<>>),
     OpsAgentData(LegacyConversations, None,
                  <<NewAction(3, 1, Some(1), WriteCommand, <<"r">>)>>)}

\* the directories a store starts on: with a legacy file or none, and with a
\* conversation file that has no list file or none
InitMigrate ==
    /\ sessions = EmptyMap
    /\ pty_channels = {}
    /\ inbox = [sid \in SessionIds |-> <<>>]
    /\ status_cache = {}
    /\ worker = [sid \in SessionIds |-> [pc |-> "none", keep_running |-> FALSE]]
    /\ chanEof = [sid \in SessionIds |-> FALSE]
    /\ open = IdleOpen
    /\ exec = [e \in ExecIds |-> IdleExec]
    /\ fetch = IdleFetch
    /\ nextSid = 1
    /\ calls = 0
    /\ lastCall = NoCall
    /\ closed = [any |-> {}, settled |-> {}]
    /\ appended = [sid \in SessionIds |-> <<>>]
    /\ chain = [sid \in SessionIds |-> [dir |-> RemoteHome, oldpwd |-> None, clean |-> TRUE]]
    /\ InitAgent
    /\ InitLocks
    /\ InitSink
    /\ conversations = <<>>
    /\ pending_actions = <<>>
    /\ active_conversation_id = None
    /\ nextUuid = 4
    /\ clock = 1
    /\ untitled = {}
    /\ \E legacy \in {None} \cup {Some(data_to_json(data)) : data \in LegacyData} :
          root = [running |-> FALSE, legacy |-> legacy, list_exists |-> FALSE]
    /\ \E files \in {EmptyMap, [id \in {2} |-> conversation_to_json(LegacyConversations[2])]} :
          disk = [files |-> files, list |-> persist_list_locked(OpsAgentData(<<>>, None, <<>>))]

NextMigrate ==
    \/ \E listing \in Listings(DOMAIN disk.files) : StartStore(listing)
    \/ StopStore
    \/ root.running /\ CreateConversation(None, None) /\ UNCHANGED <<aroundVars, lastDelete>>
    \/ \E id \in UuidsSoFar :
          root.running /\ AppendMessage(id, "User", <<"z", "z", "z">>, None)
              /\ UNCHANGED <<aroundVars, lastDelete>>
    \/ \E id \in UuidsSoFar : root.running /\ DeleteConversation(id) /\ UNCHANGED aroundVars

SpecMigrate == InitMigrate /\ [][NextMigrate]_vars

\* the directory holds a legacy file and nothing of the split layout
LegacyOnly == root.legacy # None /\ ~root.list_exists /\ DOMAIN disk.files = {}

SameConversations(a, b) ==
    /\ Len(a) = Len(b)
    /\ \A i \in 1..Len(a) : \E j \in 1..Len(b) : b[j] = a[i]

\* C24: a start on a directory that holds a legacy file and nothing of the
\* split layout gives a store with every conversation of the legacy file and
\* with its pending actions, leaves a list file that names every conversation,
\* one file for each conversation and no legacy file, and a later start on the
\* directory it leaves gives the same conversations again; and no store runs
\* on a directory that holds a legacy file
C24_LegacyMigratedOnce ==
    /\ [][(~root.running /\ root'.running /\ LegacyOnly) =>
            LET legacy == data_from_json(root.legacy[1])
                ids == {legacy.conversations[i].id : i \in 1..Len(legacy.conversations)}
            IN /\ SameConversations(legacy.conversations, conversations')
               /\ pending_actions' = legacy.pending_actions
               /\ root'.legacy = None
               /\ root'.list_exists
               /\ {disk'.list.conversations[i].id : i \in 1..Len(disk'.list.conversations)} = ids
               /\ DOMAIN disk'.files = ids
               /\ \A i \in 1..Len(conversations') :
                     conversation_from_json(disk'.files[conversations'[i].id]) = conversations'[i]
               /\ \A listing \in Listings(DOMAIN disk'.files) :
                     SameConversations(
                         conversations',
                         normalize_data(load_ops_agent_data_at(
                             [root' EXCEPT !.running = FALSE], disk', listing)).conversations)
          ]_vars
    /\ [](root.running => root.legacy = None)

\* the store started on the legacy file of two conversations and a pending
\* action: the older conversation comes first and is the active one
C24_Witness ==
    /\ root.running
    /\ agentCalls = 0
    /\ Len(conversations) = 2
    /\ conversations[1].id = 2
    /\ conversations[2].messages # <<>>
    /\ active_conversation_id = Some(2)
    /\ Len(pending_actions) = 1
    /\ DOMAIN disk.files = {1, 2}

----------------------------------------------------------------------------
(* execute_command on two open sessions whose workers run *)

\* the state after open_shell_session has returned sessions 1 and 2
InitIsolate ==
    /\ sessions = (1 :> NewSession(PwdString(RemoteHome))) @@ (2 :> NewSession(PwdString(RemoteHome)))
    /\ pty_channels = {1, 2}
    /\ inbox = [sid \in SessionIds |-> <<>>]
    /\ status_cache = {}
    /\ worker = [sid \in SessionIds |-> [pc |-> "drain", keep_running |-> TRUE]]
    /\ chanEof = [sid \in SessionIds |-> FALSE]
    /\ open = IdleOpen
    /\ exec = [e \in ExecIds |-> IdleExec]
    /\ fetch = IdleFetch
    /\ nextSid = 3
    /\ calls = 0
    /\ lastCall = NoCall
    /\ closed = [any |-> {}, settled |-> {}]
    /\ appended = [sid \in SessionIds |-> <<>>]
    /\ chain = [sid \in SessionIds |-> [dir |-> RemoteHome, oldpwd |-> None, clean |-> TRUE]]
    /\ InitStore
    /\ InitAgent
    /\ InitLocks
    /\ InitSink
    /\ InitStart

\* bytes the worker of a session appends while the calls run
MaxIsolateBytes == 1

\* one client executes on each session
IsolateCommands == {<<"c", "d", " ", "/">>, PlainCommand}

NextIsolate ==
    \/ \E sid \in SessionIds : close_shell_session(sid) /\ UNCHANGED otherVars
    \/ \E sid \in SessionIds : WorkerDrain(sid) /\ UNCHANGED otherVars
    \/ \E sid \in SessionIds :
          /\ Len(appended[sid]) < MaxIsolateBytes
          /\ WorkerReadChunk(sid, <<"a">>)
          /\ appended' = [appended EXCEPT ![sid] = @ \o <<"a">>] /\ UNCHANGED otherVars
    \/ \E sid \in SessionIds : WorkerReadNone(sid) /\ UNCHANGED otherVars
    \/ \E sid \in SessionIds : WorkerExit(sid) /\ UNCHANGED otherVars
    \/ \E e \in ExecIds, command \in IsolateCommands :
          ExecStart(e, e, command) /\ UNCHANGED otherVars
    \/ \E e \in ExecIds : ExecRunCd(e) /\ UNCHANGED chain /\ UNCHANGED otherVars
    \/ \E e \in ExecIds :
          ExecRunPlain(e, [stdout |-> <<"o", "\n">>, stderr |-> <<>>, exit |-> 0])
              /\ UNCHANGED otherVars
    \/ \E e \in ExecIds : ExecRunFail(e) /\ UNCHANGED otherVars
    \/ \E e \in ExecIds : ExecWriteBack(e) /\ UNCHANGED otherVars
    \/ \E e \in ExecIds : ExecReadBack(e) /\ UNCHANGED otherVars

SpecIsolate == InitIsolate /\ [][NextIsolate]_sessVars

\* the step is a step of an execute call on session a: the call starts, runs
\* its remote command, writes back, or returns
ExecuteStepOn(a) ==
    \/ \E e \in ExecIds :
          /\ exec'[e] # exec[e]
          /\ a = IF exec[e].pc = "idle" THEN exec'[e].sid ELSE exec[e].sid
    \/ /\ lastCall'.n # lastCall.n
       /\ lastCall'.op = "execute"
       /\ lastCall'.sid = a

\* C25: no step of an execute call on session A, whatever its command and
\* whatever the calls and the workers of the other sessions have done or are
\* in the middle of, changes the current directory or the output buffer of a
\* session B other than A, or removes B
C25_ExecuteLeavesOthers ==
    [][\A a \in SessionIds :
          ExecuteStepOn(a) =>
              \A b \in DOMAIN sessions \ {a} :
                  /\ b \in DOMAIN sessions'
                  /\ sessions'[b].current_dir = sessions[b].current_dir
                  /\ sessions'[b].last_output = sessions[b].last_output]_sessVars

\* cd / has returned on session 1 while session 2, still in the directory it
\* was opened in, holds what its worker read
C25_Witness ==
    /\ DOMAIN sessions = {1, 2}
    /\ lastCall.op = "execute"
    /\ lastCall.sid = 1
    /\ lastCall.res = "Ok"
    /\ sessions[1].current_dir = <<"/">>
    /\ sessions[1].last_output = <<"/">>
    /\ sessions[2].current_dir = PwdString(RemoteHome)
    /\ sessions[2].last_output = <<"a">>

----------------------------------------------------------------------------
(* resolve_pending_action, step by step *)

\* the step is resolver r's step out of pc
ResolverLeaves(r, pc) == resolvers[r].pc = pc /\ resolvers'[r].pc # pc

HasActionIn(actions, id) == \E i \in 1..Len(actions) : actions[i].id = id

\* the action with this id in a list that holds it
ActionOf(actions, id) == actions[CHOOSE i \in 1..Len(actions) : actions[i].id = id]

\* the conversation with this id in a list that holds it
ConversationOf(convs, id) == convs[CHOOSE i \in 1..Len(convs) : convs[i].id = id]

\* the step appends one message with this role to the conversation and leaves
\* the messages before it as they were
AppendsOne(conversation_id, role) ==
    /\ HasConversation(conversations', conversation_id)
    /\ LET before == ConversationOf(conversations, conversation_id).messages
           after == ConversationOf(conversations', conversation_id).messages
       IN /\ Len(after) = Len(before) + 1
          /\ IsPrefix(before, after)
          /\ after[Len(after)].role = role
          /\ after[Len(after)].tool_kind = Some("WriteShell")

\* the step is the start of an approving call on a pending action bound to a
\* session, and sends the call to the executor
ApproveStarts(r) ==
    (/\ ResolverLeaves(r, "idle")
     /\ resolvers'[r].approve
     /\ resolvers'[r].action.session_id # None)
        => resolvers'[r].pc = "exec"

\* the step is the call's execute_command: the action's command, on its session
ApproveRuns(r) ==
    ResolverLeaves(r, "exec")
        => LET action == resolvers[r].action
           IN invoked' = Append(invoked, Invocation("resolve", 0, action.id,
                                                    action.session_id[1], action.command))

\* what the mark of an approved call leaves of an action that is in the store
ApproveMarked(r) ==
    LET x == resolvers[r]
        e == x.execution
        action == ActionOf(pending_actions', x.action_id)
    IN /\ HasActionIn(pending_actions', x.action_id)
       /\ IF e.ok
          THEN /\ action.status = "Executed"
               /\ action.execution_output =
                     Some(format_execution_output(e.stdout, e.stderr, e.exit_code))
               /\ action.execution_exit_code = Some(e.exit_code)
               /\ resolvers'[r].pc = "tool_message"
          ELSE /\ action.status = "Failed"
               /\ action.execution_output = Some(e.error)
               /\ action.execution_exit_code = None
               /\ lastResolve'.n # lastResolve.n
               /\ lastResolve'.res = "Ok"

\* the call found its action gone: NotFound, and the store stays as it was
ResolveNotFound ==
    /\ lastResolve'.n # lastResolve.n
    /\ lastResolve'.res = "NotFound"
    /\ UNCHANGED <<conversations, pending_actions>>

\* the call returns Ok
ResolveOk == lastResolve'.n # lastResolve.n /\ lastResolve'.res = "Ok"

NoSessionStarts(r) ==
    (/\ ResolverLeaves(r, "idle")
     /\ resolvers'[r].approve
     /\ resolvers'[r].action.session_id = None)
        => resolvers'[r].pc = "no_session" /\ invoked' = invoked

\* what the call leaves of an action that is in the store: Failed, and returned
NoSessionFailed(r) ==
    /\ HasActionIn(pending_actions', resolvers[r].action_id)
    /\ ActionOf(pending_actions', resolvers[r].action_id).status = "Failed"
    /\ ActionOf(pending_actions', resolvers[r].action_id).execution_exit_code = None
    /\ ResolveOk
    /\ invoked' = invoked

\* resolveAction(approve = true) on a pending action without a session marks
\* the action Failed and returns it, and the executor is not invoked
C27_NoSessionFails ==
    [][\A r \in ResolverIds :
          /\ NoSessionStarts(r)
          /\ ResolverLeaves(r, "no_session") => NoSessionFailed(r)]_vars

\* C27: resolveAction(approve = true) on a pending action without a session
\* never invokes the executor; it marks the action Failed and returns it when
\* the action is still in the store, and returns NotFound, changing nothing,
\* when the action has gone with its conversation
C27_NoSessionFailsUnlessDeleted ==
    [][\A r \in ResolverIds :
          /\ NoSessionStarts(r)
          /\ ResolverLeaves(r, "no_session") =>
                 IF HasAction(resolvers[r].action_id) THEN NoSessionFailed(r)
                 ELSE ResolveNotFound /\ invoked' = invoked]_vars

\* an approving call has returned an action without a session as Failed, and
\* the executor has not been invoked
C27_Witness ==
    /\ lastResolve.res = "Ok"
    /\ lastResolve.approve
    /\ HasAction(lastResolve.action_id)
    /\ LET action == ActionOf(pending_actions, lastResolve.action_id)
       IN /\ action.session_id = None
          /\ action.status = "Failed"
          /\ action.execution_output = Some(<<"missing session id for write_shell">>)
    /\ invoked = <<>>

\* the start of a rejecting call on a pending action
RejectStarts(r) ==
    (ResolverLeaves(r, "idle") /\ ~resolvers'[r].approve)
        => resolvers'[r].pc = "reject" /\ invoked' = invoked

\* what the mark of a rejecting call leaves of an action that is in the store
RejectMarked(r) ==
    /\ HasActionIn(pending_actions', resolvers[r].action_id)
    /\ ActionOf(pending_actions', resolvers[r].action_id).status = "Rejected"
    /\ ActionOf(pending_actions', resolvers[r].action_id).execution_output = None
    /\ ActionOf(pending_actions', resolvers[r].action_id).execution_exit_code = None
    /\ resolvers'[r].pc = "notice"
    /\ invoked' = invoked

\* resolveAction(approve = false) on a pending action marks it Rejected with no
\* output and no exit code, invokes the executor in none of its steps, and
\* appends one notice to the action's conversation
C28_RejectNotes ==
    [][\A r \in ResolverIds :
          /\ RejectStarts(r)
          /\ ResolverLeaves(r, "reject") => RejectMarked(r)
          /\ ResolverLeaves(r, "notice") =>
                 /\ AppendsOne(resolvers[r].updated.conversation_id, "Assistant")
                 /\ ResolveOk
                 /\ invoked' = invoked]_vars

\* C28: resolveAction(approve = false) on a pending action invokes the executor
\* in none of its steps; when the action is still in the store it marks it
\* Rejected with no output and no exit code, and when the action has gone with
\* its conversation it returns NotFound and changes nothing; the notice is
\* appended when the conversation is still there, and dropped when it is not,
\* and the call returns Ok in both cases
C28_RejectNotesUnlessDeleted ==
    [][\A r \in ResolverIds :
          /\ RejectStarts(r)
          /\ ResolverLeaves(r, "reject") =>
                 IF HasAction(resolvers[r].action_id) THEN RejectMarked(r)
                 ELSE ResolveNotFound /\ invoked' = invoked
          /\ ResolverLeaves(r, "notice") =>
                 /\ IF HasConversation(conversations, resolvers[r].updated.conversation_id)
                    THEN AppendsOne(resolvers[r].updated.conversation_id, "Assistant")
                    ELSE UNCHANGED conversations
                 /\ ResolveOk
                 /\ invoked' = invoked]_vars

\* a rejecting call has returned: the action is Rejected without output, the
\* notice ends its conversation, and the executor has not been invoked
C28_Witness ==
    /\ lastResolve.res = "Ok"
    /\ ~lastResolve.approve
    /\ HasAction(lastResolve.action_id)
    /\ LET action == ActionOf(pending_actions, lastResolve.action_id)
       IN /\ action.status = "Rejected"
          /\ action.execution_output = None
          /\ action.execution_exit_code = None
          /\ HasConversation(conversations, action.conversation_id)
          /\ LET messages == ConversationOf(conversations, action.conversation_id).messages
             IN /\ messages[Len(messages)].role = "Assistant"
                /\ messages[Len(messages)].tool_kind = Some("WriteShell")
    /\ invoked = <<>>

----------------------------------------------------------------------------
(* chat runs whose answers fill more than one chunk *)

\* n characters, the last of them of two bytes
XsThenE(n) == [i \in 1..(n - 1) |-> "x"] \o <<"C3", "A9">>

\* what summarize_tool_result returns: an error, a short text, a text of one
\* full chunk, of one character more, of two full chunks, and of two full
\* chunks and one character with a two-byte character ending each chunk
StreamSummaries ==
    {None, Some(<<"s">>),
     Some(XsThenE(STREAM_CHUNK_CHARS)),
     Some(XsThenE(STREAM_CHUNK_CHARS) \o <<"y">>),
     Some(XsThenE(STREAM_CHUNK_CHARS) \o XsThenE(STREAM_CHUNK_CHARS)),
     Some(XsThenE(STREAM_CHUNK_CHARS) \o XsThenE(STREAM_CHUNK_CHARS) \o <<"C3", "A9">>)}

NextStream ==
    \/ \E r \in RunIds, c \in {None} \cup {Some(id) : id \in UuidsSoFar}, q \in Questions :
            ChatStart(r, c, q, Some(1)) /\ UNCHANGED <<aroundVars, lastDelete>>
    \/ \E r \in RunIds : ChatAppendUser(r) /\ UNCHANGED <<aroundVars, lastDelete>>
    \/ \E r \in RunIds : RunStarted(r) /\ UNCHANGED <<aroundVars, lastDelete>>
    \/ \E r \in RunIds, payload \in Payloads :
            RunPlan(r, payload) /\ UNCHANGED <<aroundVars, lastDelete>>
    \/ \E r \in RunIds : RunPlanFail(r) /\ UNCHANGED <<aroundVars, lastDelete>>
    \/ \E r \in RunIds, outcome \in ExecOutcomes :
            RunRead(r, outcome) /\ UNCHANGED <<aroundVars, lastDelete>>
    \/ \E r \in RunIds : RunToolNote(r) /\ UNCHANGED <<aroundVars, lastDelete>>
    \/ \E r \in RunIds, summary \in StreamSummaries :
            RunSummarize(r, summary) /\ UNCHANGED <<aroundVars, lastDelete>>
    \/ \E r \in RunIds : RunCreate(r) /\ UNCHANGED <<aroundVars, lastDelete>>
    \/ \E r \in RunIds : RunAnswer(r) /\ UNCHANGED <<aroundVars, lastDelete>>
    \/ \E id \in UuidsSoFar : DeleteConversation(id) /\ UNCHANGED aroundVars

SpecStream == InitSession /\ [][NextStream]_vars

\* the chunks of the Delta events of run r, in the order they were emitted
DeltaChunks(r) ==
    LET deltas == SelectSeq(events, LAMBDA e : e.run_id = r /\ e.stage = "Delta")
    IN [i \in 1..Len(deltas) |-> deltas[i].chunk[1]]

RECURSIVE Concat(_)
Concat(chunks) == IF chunks = <<>> THEN <<>> ELSE Head(chunks) \o Concat(Tail(chunks))

\* C29: for every run that emitted Completed, the chunks of its Delta events,
\* concatenated in the order of emission, are the full answer Completed
\* carries; every chunk holds at most 36 characters, and every chunk but the
\* last holds 36
C29_DeltasSpellAnswer ==
    \A r \in RunIds : \A k \in 1..Len(events) :
        (events[k].run_id = r /\ events[k].stage = "Completed")
            => LET chunks == DeltaChunks(r)
               IN /\ events[k].full_answer # None
                  /\ Concat(chunks) = events[k].full_answer[1]
                  /\ \A i \in 1..Len(chunks) :
                        /\ CharCount(chunks[i]) <= 36
                        /\ i < Len(chunks) => CharCount(chunks[i]) = 36

\* a run has completed with an answer of 73 characters in 76 bytes, sent in
\* three chunks: two of 36 characters in 37 bytes and one of a character
C29_Witness ==
    \E r \in RunIds :
        /\ runs[r].pc = "done"
        /\ events[Len(events)].stage = "Completed"
        /\ CharCount(events[Len(events)].full_answer[1]) = 73
        /\ Len(DeltaChunks(r)) = 3
        /\ Len(DeltaChunks(r)[1]) = 37
        /\ DeltaChunks(r)[3] = <<"C3", "A9">>

----------------------------------------------------------------------------
(* chat runs that dispatch read_shell *)

\* the planner asks for read_shell with a command, with no reply or with one
ReadPayloads ==
    {[reply |-> reply,
      tool |-> Some([kind |-> Some(<<"r", "e", "a", "d", "_", "s", "h", "e", "l", "l">>),
                     command |-> Some(PlainCommand), reason |-> None])] :
        reply \in {None, Some(<<"o", "k">>)}}

NextRead ==
    \/ \E r \in RunIds, c \in {None} \cup {Some(id) : id \in UuidsSoFar} :
            ChatStart(r, c, <<"h", "i">>, Some(1)) /\ UNCHANGED <<aroundVars, lastDelete>>
    \/ \E r \in RunIds : ChatAppendUser(r) /\ UNCHANGED <<aroundVars, lastDelete>>
    \/ \E r \in RunIds : RunStarted(r) /\ UNCHANGED <<aroundVars, lastDelete>>
    \/ \E r \in RunIds, payload \in ReadPayloads :
            RunPlan(r, payload) /\ UNCHANGED <<aroundVars, lastDelete>>
    \/ \E r \in RunIds, outcome \in ExecOutcomes :
            RunRead(r, outcome) /\ UNCHANGED <<aroundVars, lastDelete>>
    \/ \E r \in RunIds : RunToolNote(r) /\ UNCHANGED <<aroundVars, lastDelete>>
    \/ \E r \in RunIds, summary \in {None, Some(<<"s">>)} :
            RunSummarize(r, summary) /\ UNCHANGED <<aroundVars, lastDelete>>
    \/ \E r \in RunIds : RunAnswer(r) /\ UNCHANGED <<aroundVars, lastDelete>>
    \/ \E id \in UuidsSoFar : DeleteConversation(id) /\ UNCHANGED aroundVars

SpecRead == InitSession /\ [][NextRead]_vars

\* the events of run r, in the order they were emitted
RunEvents(r) == SelectSeq(events, LAMBDA e : e.run_id = r)

\* run r dispatched read_shell, the command or the summarizer failed, and the
\* run has ended
ToolFailed(r) == runs[r].tool_failure # "none" /\ runs[r].pc = "done"

\* the fixed text of the failure: of the execution, with its error, or of the
\* summarizer
IsFallback(r, answer) ==
    IF runs[r].tool_failure = "execution"
    THEN answer # <<>> /\ answer[1] = "<read_shell failed>: "
    ELSE answer = <<"<command executed>">>

\* the conversation of run r, when it is still there, holds the answer as an
\* assistant message
AnswerAppended(r, answer) ==
    HasConversation(conversations, runs[r].conversation_id)
        => \E i \in 1..Len(ConversationOf(conversations, runs[r].conversation_id).messages) :
              LET message == ConversationOf(conversations, runs[r].conversation_id).messages[i]
              IN /\ message.role = "Assistant"
                 /\ message.content = Trim(answer)
                 /\ message.tool_kind = None

\* a ToolRead event of run r, and a read_shell Tool message in its
\* conversation, are there only when the command returned a result
ToolReadOnlyOnResult(r) ==
    /\ (\E k \in 1..Len(events) : events[k].run_id = r /\ events[k].stage = "ToolRead")
          => runs[r].execution.ok /\ runs[r].tool_failure # "execution"
    /\ \A i \in 1..Len(conversations) : \A j \in 1..Len(conversations[i].messages) :
          (/\ conversations[i].id = runs[r].conversation_id
           /\ conversations[i].messages[j].role = "Tool")
              => runs[r].execution.ok /\ runs[r].tool_failure # "execution"

\* in a run that dispatched read_shell and whose command or summarizer failed,
\* the last event is Completed with the fixed text of the failure, which was
\* appended as an assistant message; ToolRead and the Tool message are there
\* only when the command returned a result
C30_ReadFailureFallsBack ==
    \A r \in RunIds :
        /\ ToolFailed(r) =>
              LET last == RunEvents(r)[Len(RunEvents(r))]
              IN /\ last.stage = "Completed"
                 /\ IsFallback(r, last.full_answer[1])
                 /\ AnswerAppended(r, last.full_answer[1])
        /\ ToolReadOnlyOnResult(r)

\* C30: a run that dispatched read_shell and whose command or summarizer
\* failed ends with Error only when its conversation has been deleted; else
\* its last event is Completed, carrying the planner's reply when that is not
\* blank and the fixed text of the failure when it is, and the answer was
\* appended as an assistant message; ToolRead and the Tool message are there
\* only when the command returned a result
C30_ReadFailureAnswers ==
    \A r \in RunIds :
        /\ ToolFailed(r) =>
              LET last == RunEvents(r)[Len(RunEvents(r))]
              IN /\ last.stage \in {"Completed", "Error"}
                 /\ last.stage = "Error"
                       => ~HasConversation(conversations, runs[r].conversation_id)
                 /\ last.stage = "Completed"
                       => /\ IF Trim(runs[r].plan.reply) # <<>>
                             THEN last.full_answer[1] = runs[r].plan.reply
                             ELSE IsFallback(r, last.full_answer[1])
                          /\ AnswerAppended(r, last.full_answer[1])
        /\ ToolReadOnlyOnResult(r)

\* the command returned a result and the summarizer failed: the run emitted
\* Started, ToolRead, one Delta and Completed with the fixed text, and its
\* conversation holds the question, the Tool message and the answer
C30_Witness ==
    \E r \in RunIds :
        /\ ToolFailed(r)
        /\ runs[r].tool_failure = "summarizer"
        /\ [k \in 1..Len(RunEvents(r)) |-> RunEvents(r)[k].stage]
              = <<"Started", "ToolRead", "Delta", "Completed">>
        /\ RunEvents(r)[4].full_answer = Some(<<"<command executed>">>)
        /\ HasConversation(conversations, runs[r].conversation_id)
        /\ LET messages == ConversationOf(conversations, runs[r].conversation_id).messages
           IN [k \in 1..Len(messages) |-> messages[k].role] = <<"User", "Tool", "Assistant">>

\* ---------------------------------------------------------------------------
\* start_chat_stream: the calls that return Validation or NotFound
\* ---------------------------------------------------------------------------

\* the question of the call is blank: question.trim().is_empty()
BlankQuestion(question) == \A i \in 1..Len(question) : IsWhitespace(question[i])

\* the call names a conversation the store does not hold
UnknownConversation(conversation_id) ==
    /\ conversation_id # None
    /\ ~HasConversation(conversations, conversation_id[1])

\* a start_chat_stream call that returns Validation (blank question) or
\* NotFound (ensure_conversation finds no conversation of that id)
ChatStartFails ==
    \E r \in RunIds, c \in {None} \cup {Some(id) : id \in UuidsSoFar},
       q \in Questions, sid \in SessionOptions :
        /\ BlankQuestion(q) \/ UnknownConversation(c)
        /\ ChatStart(r, c, q, sid)

\* C31: a startChat call that returns an error because the question is blank
\* (Validation) or because the named conversation is unknown (NotFound)
\* creates no conversation, appends no message, starts no run and emits no
\* stream event: the conversations, the pending actions, the active pointer,
\* the files, the runs and the events are what they were before the call.
C31_FailedStartChangesNothing ==
    [][ChatStartFails =>
         /\ conversations' = conversations
         /\ pending_actions' = pending_actions
         /\ active_conversation_id' = active_conversation_id
         /\ disk' = disk
         /\ runs' = runs
         /\ events' = events]_vars

\* the one call made so far is a startChat call that returned an error: no
\* deleteConversation and no resolveAction was called, and no run is in progress
C31_Witness ==
    /\ agentCalls = 1
    /\ lastDelete = NoDelete
    /\ resolveCalls = {}
    /\ \A r \in RunIds : runs[r].pc = "idle"
    /\ conversations = <<>>
    /\ events = <<>>

\* ---------------------------------------------------------------------------
\* the event sink of the PTY output
\* ---------------------------------------------------------------------------

\* number of chunks the workers read while the sink is recorded
MaxSinkChunks == 2

\* the chunks channel.read returns
SinkChunks == {<<"a">>, <<"b">>}

\* emit_pty_output: one "pty-output" event tagged with the session id
emit_pty_output(sid, chunk) ==
    pty_output' = Append(pty_output, [session_id |-> sid, chunk |-> chunk])

\* the Ok(size) arm of channel.read: append_session_output (the error of
\* mutate_session is dropped), then emit_pty_output
WorkerReadEmit(sid, chunk) ==
    /\ Len(pty_output) < MaxSinkChunks
    /\ WorkerReadChunk(sid, chunk)
    /\ appended' = IF sid \in DOMAIN sessions
                   THEN [appended EXCEPT ![sid] = @ \o chunk]
                   ELSE appended
    /\ emit_pty_output(sid, chunk)
    /\ UNCHANGED <<queued, applied, sending>>

NextSink ==
    \/ OpenStart /\ UNCHANGED otherVars
    \/ OpenWorker /\ UNCHANGED otherVars
    \/ \E sid \in KnownIds : close_shell_session(sid) /\ UNCHANGED otherVars
    \/ \E sid \in SessionIds : WorkerDrain(sid) /\ UNCHANGED otherVars
    \/ \E sid \in SessionIds, chunk \in SinkChunks :
            WorkerReadEmit(sid, chunk) /\ UNCHANGED <<storeVars, agentVars, lockVars, startVars>>
    \/ \E sid \in SessionIds : WorkerReadNone(sid) /\ UNCHANGED otherVars
    \/ \E sid \in SessionIds : WorkerExit(sid) /\ UNCHANGED otherVars
    \/ \E sid \in SessionIds : RemoteEof(sid) /\ UNCHANGED otherVars

SpecSink == InitSession /\ [][NextSink]_vars

\* the chunks of the events tagged with one session id, in the order emitted
RECURSIVE ForwardedOf(_, _)
ForwardedOf(output, sid) ==
    IF output = <<>> THEN <<>>
    ELSE (IF Head(output).session_id = sid THEN Head(output).chunk ELSE <<>>)
         \o ForwardedOf(Tail(output), sid)

\* C32: within one session every chunk the worker reads from the channel is
\* appended to the session's output buffer and forwarded to the event sink
\* tagged with the session id, in the order read: the chunks the sink got for
\* a session are the chunks appended to that session in the registry.
C32_ForwardedChunksAppended ==
    \A sid \in SessionIds : ForwardedOf(pty_output, sid) = appended[sid]

\* ---------------------------------------------------------------------------
\* the worker's inbox: the order in which commands are sent and applied
\* ---------------------------------------------------------------------------

\* send_pty_command up to the clone of the sender: NotFound when the session
\* has no registered sender
SendLookup(sid, command) ==
    /\ sending.pc = "idle"
    /\ calls < MaxCalls
    /\ IF sid \in pty_channels
       THEN /\ sending' = [pc |-> "send", sid |-> sid, command |-> command]
            /\ UNCHANGED <<calls, lastCall>>
       ELSE /\ lastCall' = Returned(IF command = "Input" THEN "write" ELSE "resize",
                                    sid, "NotFound", <<>>, 0, <<>>)
            /\ calls' = calls + 1
            /\ UNCHANGED sending
    /\ UNCHANGED <<sessions, pty_channels, inbox, status_cache, worker, chanEof, open, exec,
                   fetch, nextSid, closed, appended, chain>>

\* sender.send on the clone, after the read lock of the senders was released
SendDeliver ==
    /\ sending.pc = "send"
    /\ inbox' = Send(inbox, sending.sid, sending.command)
    /\ lastCall' = Returned(IF sending.command = "Input" THEN "write" ELSE "resize",
                            sending.sid,
                            IF ReceiverAlive(sending.sid) THEN "Ok" ELSE "Runtime",
                            <<>>, 0, <<>>)
    /\ calls' = calls + 1
    /\ sending' = IdleSend
    /\ UNCHANGED <<sessions, pty_channels, status_cache, worker, chanEof, open, exec,
                   fetch, nextSid, closed, appended, chain>>

\* the command a step added to an inbox joins the session's send history
RecordQueued ==
    queued' = [sid \in SessionIds |->
                 IF Len(inbox'[sid]) > Len(inbox[sid])
                 THEN Append(queued[sid], inbox'[sid][Len(inbox'[sid])])
                 ELSE queued[sid]]

\* the command a worker's step applied to the channel: an Input whose
\* write_channel_input returned Ok, or a Resize taken from the inbox
RecordApplied ==
    applied' = [sid \in SessionIds |->
                  IF worker[sid].pc = "write" /\ worker'[sid].pc = "drain"
                  THEN Append(applied[sid], "Input")
                  ELSE IF /\ worker[sid].pc = "drain"
                          /\ Len(inbox'[sid]) < Len(inbox[sid])
                          /\ Head(inbox[sid]) = "Resize"
                  THEN Append(applied[sid], "Resize")
                  ELSE applied[sid]]

Recorded == RecordQueued /\ RecordApplied /\ UNCHANGED pty_output

NextInbox ==
    \/ OpenStart /\ Recorded /\ UNCHANGED <<sending, storeVars, agentVars, lockVars, startVars>>
    \/ OpenWorker /\ Recorded /\ UNCHANGED <<sending, storeVars, agentVars, lockVars, startVars>>
    \/ \E sid \in KnownIds :
            close_shell_session(sid) /\ Recorded
            /\ UNCHANGED <<sending, storeVars, agentVars, lockVars, startVars>>
    \/ \E sid \in KnownIds, command \in {"Input", "Resize"} :
            SendLookup(sid, command) /\ Recorded
            /\ UNCHANGED <<storeVars, agentVars, lockVars, startVars>>
    \/ SendDeliver /\ Recorded /\ UNCHANGED <<storeVars, agentVars, lockVars, startVars>>
    \/ \E sid \in SessionIds :
            WorkerDrain(sid) /\ Recorded
            /\ UNCHANGED <<sending, storeVars, agentVars, lockVars, startVars>>
    \/ \E sid \in SessionIds :
            WorkerWrite(sid) /\ Recorded
            /\ UNCHANGED <<sending, storeVars, agentVars, lockVars, startVars>>
    \/ \E sid \in SessionIds :
            WorkerBackoff(sid) /\ Recorded
            /\ UNCHANGED <<sending, storeVars, agentVars, lockVars, startVars>>
    \/ \E sid \in SessionIds :
            WorkerReadChunk(sid, <<"a">>) /\ UNCHANGED appended /\ Recorded
            /\ UNCHANGED <<sending, storeVars, agentVars, lockVars, startVars>>
    \/ \E sid \in SessionIds :
            WorkerReadNone(sid) /\ Recorded
            /\ UNCHANGED <<sending, storeVars, agentVars, lockVars, startVars>>
    \/ \E sid \in SessionIds :
            WorkerExit(sid) /\ Recorded
            /\ UNCHANGED <<sending, storeVars, agentVars, lockVars, startVars>>
    \/ \E sid \in SessionIds :
            RemoteEof(sid) /\ Recorded
            /\ UNCHANGED <<sending, storeVars, agentVars, lockVars, startVars>>

SpecInbox == InitSession /\ [][NextInbox]_vars

\* the commands of a history that stand before its first Close
RECURSIVE BeforeClose(_)
BeforeClose(history) ==
    IF history = <<>> \/ Head(history) = "Close" THEN <<>>
    ELSE <<Head(history)>> \o BeforeClose(Tail(history))

\* the worker has taken a Close from its inbox
TookClose(sid) ==
    Len(queued[sid]) - Len(inbox[sid]) > Len(BeforeClose(queued[sid]))

\* a try_recv that takes a Resize: the result of request_pty_size is dropped
TakesResize(sid) ==
    /\ worker[sid].pc = "drain"
    /\ inbox[sid] # <<>>
    /\ Head(inbox[sid]) = "Resize"
    /\ inbox'[sid] = Tail(inbox[sid])

\* C33: the worker applies the commands of its inbox in the order they were
\* sent: what it has applied is at every moment a prefix of the commands sent
\* before the first Close, so no command sent after a Close is applied; once
\* it has taken the Close (the channel stayed open: no write or read ended
\* the loop before), every Input and Resize sent before the Close has been
\* applied in full; and a Resize, failed or not, leaves the worker running.
C33_InboxAppliedInOrder ==
    /\ [](\A sid \in SessionIds :
            /\ IsPrefix(applied[sid], BeforeClose(queued[sid]))
            /\ TookClose(sid) => applied[sid] = BeforeClose(queued[sid]))
    /\ [][\A sid \in SessionIds : TakesResize(sid) => worker'[sid] = worker[sid]]_vars

\* an Input was sent before the Close and another command after it; the worker
\* has applied the first Input, taken the Close and stopped
C33_Witness ==
    \E sid \in SessionIds :
        /\ Len(BeforeClose(queued[sid])) >= 1
        /\ "Input" \in {BeforeClose(queued[sid])[i] : i \in 1..Len(BeforeClose(queued[sid]))}
        /\ \E i \in 1..Len(queued[sid]) :
              i > Len(BeforeClose(queued[sid])) + 1 /\ queued[sid][i] # "Close"
        /\ TookClose(sid)
        /\ worker[sid].pc = "done"

\* ---------------------------------------------------------------------------
\* resolve_pending_action: how often the command of one action is run
\* ---------------------------------------------------------------------------

\* the invocations of the Command Executor made for one pending action
InvocationsFor(action_id) ==
    {i \in 1..Len(invoked) : invoked[i].by = "resolve" /\ invoked[i].action_id = action_id}

\* C34: for every pending action the Command Executor is invoked with its
\* command at most once over the whole life of the action, also when several
\* resolveAction(approve=true) calls for its id are issued concurrently.
C34_CommandRunsAtMostOnce ==
    \A action_id \in UuidsSoFar : Cardinality(InvocationsFor(action_id)) <= 1

\* ---------------------------------------------------------------------------
\* resolve_pending_action with the Command Executor on a registered session
\* ---------------------------------------------------------------------------

\* what run_channel_command returns for the approved command
ApproveResults ==
    {[stdout |-> <<"o", "\n">>, stderr |-> <<>>, exit |-> 0],
     [stdout |-> <<>>, stderr |-> <<"e">>, exit |-> 1]}

\* the Result of ssh_service::execute_command as resolve_pending_action gets
\* it; `completed` records whether run_channel_command had returned
ExecutionOf(x, res) ==
    IF res = "Ok"
    THEN [ok |-> TRUE, stdout |-> x.stdout, stderr |-> x.stderr, exit_code |-> x.exit,
          error |-> <<>>, completed |-> TRUE]
    ELSE [ok |-> FALSE, stdout |-> <<>>, stderr |-> <<>>, exit_code |-> 0,
          error |-> <<res>>, completed |-> x.pc = "wb"]

\* resolve_pending_action waits for the spawn_blocking task: when the step
\* has returned from execute_command the call goes on with its result
ApproveAwait(r, e) ==
    /\ resolvers' = IF exec'[e].pc = "idle"
                    THEN [resolvers EXCEPT ![r].pc = "mark",
                                           ![r].execution = ExecutionOf(exec[e], lastCall'.res)]
                    ELSE [resolvers EXCEPT ![r].pc = "exec_wait"]
    /\ UNCHANGED <<storeVars, runs, events, agentCalls, resolveCalls, settled, lastResolve,
                   lastDelete>>

\* the approved command is handed to execute_command
ApproveExecStart(r, e) ==
    /\ resolvers[r].pc = "exec"
    /\ ExecStart(e, resolvers[r].action.session_id[1], resolvers[r].action.command)
    /\ LET x == resolvers[r]
       IN invoked' = Append(invoked, Invocation("resolve", 0, x.action_id,
                                                x.action.session_id[1], x.action.command))
    /\ ApproveAwait(r, e)

\* execute_command goes on for the approved command
ApproveExecStep(r, e) ==
    /\ resolvers[r].pc = "exec_wait"
    /\ \/ \E result \in ApproveResults : ExecRunPlain(e, result)
       \/ ExecRunFail(e)
       \/ ExecWriteBack(e)
    /\ UNCHANGED invoked
    /\ ApproveAwait(r, e)

NextApprove ==
    \/ CreateConversation(None, Some(1)) /\ UNCHANGED <<aroundVars, lastDelete>>
    \/ \E id \in UuidsSoFar :
            CreatePendingAction(id, Some(1), WriteCommand) /\ UNCHANGED <<aroundVars, lastDelete>>
    \/ \E id \in UuidsSoFar : ResolveStart(1, id, TRUE) /\ UNCHANGED <<aroundVars, lastDelete>>
    \/ ApproveExecStart(1, 1) /\ UNCHANGED <<lockVars, startVars, sinkVars>>
    \/ ApproveExecStep(1, 1) /\ UNCHANGED <<lockVars, startVars, sinkVars>>
    \/ ResolveMark(1) /\ UNCHANGED <<aroundVars, lastDelete>>
    \/ ResolveToolMessage(1) /\ UNCHANGED <<aroundVars, lastDelete>>
    \/ close_shell_session(1) /\ UNCHANGED otherVars
    \/ \E id \in UuidsSoFar : DeleteConversation(id) /\ UNCHANGED aroundVars

SpecApprove == InitExec /\ [][NextApprove]_vars

\* the call marks or misses the action after execute_command has returned
ApproveSettles(r) == resolvers[r].pc = "mark" /\ resolvers'[r].pc # "mark"

\* C35: a pending action ends Failed only when its command did not run on the
\* remote host; whenever the remote command ran to completion the action ends
\* Executed with the captured output and exit code, also when the session is
\* closed or the conversation is deleted while the command is running.
C35_RanMeansExecuted ==
    [][\A r \in ResolverIds :
          (ApproveSettles(r) /\ resolvers[r].execution.completed) =>
             /\ HasActionIn(pending_actions', resolvers[r].action_id)
             /\ ActionOf(pending_actions', resolvers[r].action_id).status = "Executed"
             /\ resolvers[r].execution.ok
             /\ ActionOf(pending_actions', resolvers[r].action_id).execution_exit_code
                    = Some(resolvers[r].execution.exit_code)]_vars

\* ---------------------------------------------------------------------------
\* open_shell_session: the session and its worker inbox
\* ---------------------------------------------------------------------------

\* a step in which an open_shell_session call returns an error
OpenReturnsError ==
    /\ lastCall'.n # lastCall.n
    /\ lastCall'.op = "open"
    /\ lastCall'.res # "Ok"

\* C36: once an open call has returned, every session in the registry created
\* by it has a registered worker inbox; an open call that returns an error
\* (configuration lookup, connect, initial pwd or worker start failure) leaves
\* no new session in the registry.
C36_OpenedSessionsHaveInbox ==
    /\ [](\A sid \in DOMAIN sessions :
            (open.pc = "idle" \/ open.sid # sid) => sid \in pty_channels)
    /\ [][OpenReturnsError =>
            /\ lastCall'.sid \notin DOMAIN sessions'
            /\ DOMAIN sessions' \subseteq DOMAIN sessions]_vars

\* ---------------------------------------------------------------------------
\* execute_command: two cd calls on one session
\* ---------------------------------------------------------------------------

\* cd commands with targets relative to the session's directory
RelativeCdCommands == {<<"c", "d", " ", "a">>, <<"c", "d", " ", ".", ".">>}

NextSerial ==
    \/ \E e \in ExecIds, command \in RelativeCdCommands :
            ExecStart(e, 1, command) /\ UNCHANGED otherVars
    \/ \E e \in ExecIds : ExecRunCd(e) /\ UNCHANGED chain /\ UNCHANGED otherVars
    \/ \E e \in ExecIds : ExecRunFail(e) /\ UNCHANGED otherVars
    \/ \E e \in ExecIds : ExecWriteBack(e) /\ UNCHANGED otherVars
    \/ \E e \in ExecIds : ExecReadBack(e) /\ UNCHANGED otherVars

SpecSerial == InitExec /\ [][NextSerial]_sessVars

\* currentDirectory after one execute call with a cd command made alone on a
\* session that stands in current_dir
DirAfterCd(current_dir, command) ==
    LET r == RemoteCdPwd(shell_quote(current_dir), CdTarget(command))
    IN IF CdUpdates(r.exit) THEN sanitize_cwd(Trim(r.stdout)) ELSE current_dir

\* the second of the first two calls of the session returns; both are execute
\* calls that returned Ok with exit code 0
SecondCdReturns ==
    /\ calls = 1 /\ calls' = 2
    /\ lastCall.op = "execute" /\ lastCall.res = "Ok" /\ lastCall.exit = 0
    /\ lastCall'.op = "execute" /\ lastCall'.res = "Ok" /\ lastCall'.exit = 0

\* C37: when two execute calls with cd commands run on the same session and
\* both exit zero, the session's final currentDirectory is the one that
\* running the two cd commands one after the other, in one of the two
\* orders, leads to.
C37_CdCallsSerialize ==
    [][SecondCdReturns =>
         LET d0 == PwdString(RemoteHome)
             a == lastCall.data
             b == lastCall'.data
         IN sessions'[1].current_dir \in {DirAfterCd(DirAfterCd(d0, a), b),
                                          DirAfterCd(DirAfterCd(d0, b), a)}]_vars

\* ---------------------------------------------------------------------------
\* the status cache and the registry
\* ---------------------------------------------------------------------------

\* C38: in every reachable state the status cache holds entries only for
\* session ids present in the registry: once a session has been removed no
\* cached status for its id exists, also when a status fetch for that session
\* is in flight while it is removed.
C38_CacheOnlyForSessions == status_cache \subseteq DOMAIN sessions

\* ---------------------------------------------------------------------------
\* the active-conversation pointer
\* ---------------------------------------------------------------------------

FailedWrites == {"conversation", "list"}

\* append_message whose persist_conversation_locked or persist_list_locked
\* returns an error: the message was pushed and the pointer set before
AppendMessageFails(conversation_id, role, content, tool_kind, failed) ==
    /\ agentCalls < MaxAgentCalls
    /\ agentCalls' = agentCalls + 1
    /\ append_message_result(conversation_id, content) = "Ok"
    /\ conversations' = [conversations EXCEPT ![ConvIndex(conversation_id)] =
            AppendedConversation(@, role, Trim(content), tool_kind)]
    /\ active_conversation_id' = Some(conversation_id)
    /\ disk' = IF failed = "conversation" THEN disk
               ELSE [disk EXCEPT !.files = persist_conversation_locked(disk.files,
                                               conversations'[ConvIndex(conversation_id)])]
    /\ UNCHANGED <<pending_actions, nextUuid, clock, untitled, runs, resolvers, events, invoked,
                   resolveCalls, settled, lastResolve, lastDelete>>

\* create_pending_action whose persist_list_locked returns an error: the
\* action was pushed before
CreatePendingActionFails(conversation_id, session_id, command) ==
    /\ agentCalls < MaxAgentCalls
    /\ agentCalls' = agentCalls + 1
    /\ create_pending_action_result(conversation_id, command) = "Ok"
    /\ pending_actions' = Append(pending_actions,
            NewAction(nextUuid, conversation_id, session_id, command, <<"requested by agent">>))
    /\ nextUuid' = nextUuid + 1
    /\ UNCHANGED <<conversations, active_conversation_id, clock, untitled, disk, runs,
                   resolvers, events, invoked, resolveCalls, settled, lastResolve, lastDelete>>

\* update_action_status whose persist_conversation_locked or
\* persist_list_locked returns an error: the action was updated before
MarkActionFails(action_id, status, failed) ==
    /\ agentCalls < MaxAgentCalls
    /\ agentCalls' = agentCalls + 1
    /\ HasAction(action_id)
    /\ LET conversation_id == pending_actions[ActionIndex(action_id)].conversation_id
       IN /\ failed = "conversation" => HasConversation(conversations, conversation_id)
          /\ \E now \in Now :
                /\ clock' = now
                /\ pending_actions' = [pending_actions EXCEPT ![ActionIndex(action_id)] =
                        UpdatedAction(@, status, IF status = "Rejected" THEN None
                                                 ELSE Some(<<"o">>),
                                      IF status = "Executed" THEN Some(0) ELSE None, now)]
          /\ disk' = IF failed = "list" /\ HasConversation(conversations, conversation_id)
                     THEN [disk EXCEPT !.files = persist_conversation_locked(disk.files,
                                                     conversations[ConvIndex(conversation_id)])]
                     ELSE disk
    /\ UNCHANGED <<conversations, active_conversation_id, nextUuid, untitled, runs, resolvers,
                   events, invoked, resolveCalls, settled, lastResolve, lastDelete>>

\* delete_conversation whose remove_file_if_exists ("conversation") or
\* persist_list_locked ("list") returns an error: the conversation and its
\* pending actions were removed and the pointer was moved before
DeleteConversationFails(id, failed) ==
    /\ agentCalls < MaxAgentCalls
    /\ agentCalls' = agentCalls + 1
    /\ delete_conversation_result(id) = "Ok"
    /\ failed = "conversation" => id \in DOMAIN disk.files
    /\ lastDelete' = [n |-> agentCalls + 1, id |-> id, res |-> "Io"]
    /\ LET kept == SelectSeq(conversations, LAMBDA c : c.id # id)
           active_valid == /\ active_conversation_id # None
                           /\ HasConversation(kept, active_conversation_id[1])
       IN /\ conversations' = kept
          /\ pending_actions' = SelectSeq(pending_actions, LAMBDA a : a.conversation_id # id)
          /\ active_conversation_id' =
                IF active_valid THEN active_conversation_id
                ELSE IF kept = <<>> THEN None ELSE Some(kept[1].id)
    /\ disk' = IF failed = "conversation" THEN disk
               ELSE [disk EXCEPT !.files = MapRemove(disk.files, id)]
    /\ UNCHANGED <<nextUuid, clock, untitled, runs, resolvers, events, invoked, resolveCalls,
                   settled, lastResolve>>

NextWrite ==
    \/ CreateConversation(None, Some(1)) /\ UNCHANGED <<aroundVars, lastDelete>>
    \/ \E id \in UuidsSoFar, content \in {<<"z">>, <<" ">>} :
            AppendMessage(id, "User", content, None) /\ UNCHANGED <<aroundVars, lastDelete>>
    \/ \E id \in UuidsSoFar, failed \in FailedWrites :
            AppendMessageFails(id, "User", <<"z">>, None, failed) /\ UNCHANGED aroundVars
    \/ \E id \in UuidsSoFar, command \in {BlankCommand, WriteCommand} :
            CreatePendingAction(id, Some(1), command) /\ UNCHANGED <<aroundVars, lastDelete>>
    \/ \E id \in UuidsSoFar :
            CreatePendingActionFails(id, Some(1), WriteCommand) /\ UNCHANGED aroundVars
    \/ \E id \in UuidsSoFar, status \in {"Rejected", "Executed", "Failed"} :
            MarkAction(id, status) /\ UNCHANGED <<aroundVars, lastDelete>>
    \/ \E id \in UuidsSoFar, status \in {"Rejected", "Executed", "Failed"},
          failed \in FailedWrites :
            MarkActionFails(id, status, failed) /\ UNCHANGED aroundVars
    \/ \E id \in UuidsSoFar : DeleteConversation(id) /\ UNCHANGED aroundVars
    \/ \E id \in UuidsSoFar, failed \in FailedWrites :
            DeleteConversationFails(id, failed) /\ UNCHANGED aroundVars

SpecWrite == InitSession /\ [][NextWrite]_vars

\* a call of the store that returns an error: Validation, NotFound, or the Io
\* error of a failed write
StoreCallFails ==
    \/ \E id \in UuidsSoFar, content \in {<<"z">>, <<" ">>} :
          /\ append_message_result(id, content) # "Ok"
          /\ AppendMessage(id, "User", content, None)
    \/ \E id \in UuidsSoFar, failed \in FailedWrites :
          AppendMessageFails(id, "User", <<"z">>, None, failed)
    \/ \E id \in UuidsSoFar, command \in {BlankCommand, WriteCommand} :
          /\ create_pending_action_result(id, command) # "Ok"
          /\ CreatePendingAction(id, Some(1), command)
    \/ \E id \in UuidsSoFar : CreatePendingActionFails(id, Some(1), WriteCommand)
    \/ \E id \in UuidsSoFar, status \in {"Rejected", "Executed", "Failed"} :
          ~HasAction(id) /\ MarkAction(id, status)
    \/ \E id \in UuidsSoFar, status \in {"Rejected", "Executed", "Failed"},
          failed \in FailedWrites : MarkActionFails(id, status, failed)
    \/ \E id \in UuidsSoFar : delete_conversation_result(id) # "Ok" /\ DeleteConversation(id)
    \/ \E id \in UuidsSoFar, failed \in FailedWrites : DeleteConversationFails(id, failed)

\* C40: every operation of the Agent Store that returns an error (validation,
\* not found, or a failed write of a conversation file or of the index file)
\* leaves the conversations, the pending actions and the active pointer in
\* memory exactly as they were before the call.
C40_FailedCallLeavesMemory ==
    [][StoreCallFails =>
         /\ conversations' = conversations
         /\ pending_actions' = pending_actions
         /\ active_conversation_id' = active_conversation_id]_vars

========================================================================
